---------------------------- MODULE Spec2Model ----------------------------
(***************************************************************************)
(* A model of the flashpapers record store (FlashcardStorage) and of the   *)
(* spaced-repetition scheduler built on it (FlashcardDataHandler).         *)
(*                                                                         *)
(* Python floats are IEEE-754 binary64 values.  The ease factor is a float *)
(* that the scheduler multiplies, compares and truncates, so the model     *)
(* carries it as a binary64 value and computes with round-to-nearest-even, *)
(* as the interpreter does.  Only positive normal values occur (the ease   *)
(* factor and the SRS multipliers are positive, and the number of          *)
(* multiplications is bounded), so signs, zeros, subnormals and infinities *)
(* are left out.                                                           *)
(***************************************************************************)
EXTENDS Integers, Sequences, FiniteSets, TLC

(***************************************************************************)
(* binary64 arithmetic.  A value is [m |-> <<l0, l1, l2, l3>>, e |-> k]:   *)
(* the 53-bit significand M = l0 + l1*B + l2*B^2 + l3*B^3 in limbs of 14   *)
(* bits (B = 2^14, 2^52 <= M < 2^53) and the value is M * 2^k.             *)
(***************************************************************************)
LimbBase == 2 ^ 14

\* F applied to the value of v, which is computed once.
Bind(v, F(_)) == CHOOSE y \in { F(x) : x \in { v } } : TRUE

\* A binary64 value from the four 14-bit limbs of its significand
\* (most significant first, as one reads float.hex) and its exponent.
Dbl(l3, l2, l1, l0, e) == [m |-> <<l0, l1, l2, l3>>, e |-> e]

\* The limbs of the number whose limb i (from 1) is cols[i] plus the carry
\* c out of limb i - 1, least significant first; the last carry is the top
\* limb.
RECURSIVE Carry(_, _, _)
Carry(cols, i, c) ==
    IF i > Len(cols) THEN << c >>
    ELSE Bind(cols[i] + c,
              LAMBDA v : << v % LimbBase >>
                         \o Carry(cols, i + 1, v \div LimbBase))

\* The 8 limbs of the 112-bit product of two significands, by column sums.
\* Every intermediate value is below 2^31.
MulLimbs(a, b) ==
    Bind(<< a[1] * b[1],
            a[1] * b[2] + a[2] * b[1],
            a[1] * b[3] + a[2] * b[2] + a[3] * b[1],
            a[1] * b[4] + a[2] * b[3] + a[3] * b[2] + a[4] * b[1],
            a[2] * b[4] + a[3] * b[3] + a[4] * b[2],
            a[3] * b[4] + a[4] * b[3],
            a[4] * b[4] >>,
         LAMBDA cols : Carry(cols, 1, 0))

\* Limb i (from 0) of the limb sequence p shifted right by q limbs and r
\* bits (0 <= r < 14); limbs beyond the end of p are zero.
ShiftedLimb(p, q, r, i) ==
    ((IF q + i + 1 <= Len(p) THEN p[q + i + 1] ELSE 0) \div (2 ^ r))
    + ((IF q + i + 2 <= Len(p) THEN p[q + i + 2] ELSE 0) % (2 ^ r))
      * (2 ^ (14 - r))

\* The limb sequence p shifted right by q limbs and r bits, as n limbs.
Shifted(p, q, r, n) == [ i \in 1..n |-> ShiftedLimb(p, q, r, i - 1) ]

\* The 4-limb significand m plus one unit in the last place; the top limb
\* takes the last carry.
IncLimbs(m) ==
    IF m[1] + 1 < LimbBase THEN [ m EXCEPT ![1] = m[1] + 1 ]
    ELSE IF m[2] + 1 < LimbBase THEN << 0, m[2] + 1, m[3], m[4] >>
    ELSE IF m[3] + 1 < LimbBase THEN << 0, 0, m[3] + 1, m[4] >>
    ELSE << 0, 0, 0, m[4] + 1 >>

\* The product p of two significands (in [2^104, 2^106)) rounded to 53
\* bits, ties to even: s is the number of bits dropped, e the exponent of
\* the product's last bit.
RoundProduct(p, s, e) ==
    Bind(Shifted(p, s \div 14, s % 14, 4),
         LAMBDA t :
            LET q      == s \div 14
                r      == s % 14
                half   == (p[q + 1] \div (2 ^ (r - 1))) % 2 = 1
                sticky == \/ p[q + 1] % (2 ^ (r - 1)) # 0
                          \/ \E i \in 1..q : p[i] # 0
            IN  IF half /\ (sticky \/ t[1] % 2 = 1)
                THEN Bind(IncLimbs(t),
                          LAMBDA u :
                             IF u[4] >= 2 ^ 11
                             THEN [m |-> <<0, 0, 0, 2 ^ 10>>, e |-> e + s + 1]
                             ELSE [m |-> u, e |-> e + s])
                ELSE [m |-> t, e |-> e + s])

\* A faulty variant of FMul: the product rounded toward zero.
FMul_toward_zero(x, y) ==
    Bind(MulLimbs(x.m, y.m),
         LAMBDA p :
            Bind(IF p[8] >= 2 ^ 7 THEN 53 ELSE 52,
                 LAMBDA s : [m |-> Shifted(p, s \div 14, s % 14, 4),
                             e |-> x.e + y.e + s]))

\* x * y on floats: the exact product rounded to 53 bits, ties to even.
\* Bit 105 of the product is bit 7 of its top limb.
FMul(x, y) ==
    Bind(MulLimbs(x.m, y.m),
         LAMBDA p : RoundProduct(p, IF p[8] >= 2 ^ 7 THEN 53 ELSE 52,
                                 x.e + y.e))

\* x < y on floats.
FLess(x, y) ==
    \/ x.e < y.e
    \/ /\ x.e = y.e
       /\ \E i \in 1..4 : /\ x.m[i] < y.m[i]
                          /\ \A j \in (i + 1)..4 : x.m[j] = y.m[j]

\* max(x, y) as Python's builtin computes it: y only when y > x.
FMax(x, y) == IF FLess(x, y) THEN y ELSE x

\* The position of the highest set bit of n >= 1.
RECURSIVE Log2(_)
Log2(n) == IF n <= 1 THEN 0 ELSE 1 + Log2(n \div 2)

\* float(n) for an int 1 <= n < 2^24: exact.  w holds the top 25 bits of
\* the significand.
FromInt(n) ==
    Bind(Log2(n),
         LAMBDA k :
            Bind(n * (2 ^ (24 - k)),
                 LAMBDA w : [m |-> << 0, 0, w % (2 ^ 14), w \div (2 ^ 14) >>,
                             e |-> k - 52]))

\* int(x) for a float 0 < x < 2^31 (so x.e <= -22): truncation toward zero.
FTrunc(x) ==
    Bind(Shifted(x.m, (0 - x.e) \div 14, (0 - x.e) % 14, 3),
         LAMBDA t : t[1] + t[2] * LimbBase + t[3] * LimbBase * LimbBase)

(***************************************************************************)
(* Float literals of the source and of the configurations, as binary64.    *)
(***************************************************************************)
F2_5 == Dbl(1280, 0, 0, 0, -51)              \* 2.5     0x1.4000000000000p+1

F1_3 == Dbl(1331, 3276, 13107, 3277, -52)    \* 1.3     0x1.4cccccccccccdp+0

F0_8 == Dbl(1638, 6553, 9830, 6554, -53)     \* 0.8     0x1.999999999999ap-1

F2_0 == Dbl(1024, 0, 0, 0, -51)              \* 2.0     0x1.0000000000000p+1

F1_5 == Dbl(1536, 0, 0, 0, -52)              \* 1.5     0x1.8000000000000p+0

F0_5 == Dbl(1024, 0, 0, 0, -53)              \* 0.5     0x1.0000000000000p-1


(***************************************************************************)
(* Bounds of the model.                                                    *)
(***************************************************************************)
\* Records created in a behaviour of Spec.
MaxPapers == 2

\* Records created in a behaviour of QueueSpec.
MaxQueue == 3

\* Successful reviews in a behaviour of Spec.
MaxReviews == 1

\* Successful reviews of the one record of SchedulerSpec.
MaxRatings == 3

\* The clock runs from 0 to MaxClock ticks.
MaxClock == 1

\* Clock ticks in one day (timedelta(days=1)).
TicksPerDay == 1

\* Records created in a behaviour of BackupSpec.
MaxSaved == 1

\* Calls of create_backup and restore_from_backup in a behaviour of
\* BackupSpec.
MaxBackupCalls == 2

(***************************************************************************)
(* Optional values: None is the empty tuple, a present value v is <<v>>.   *)
(***************************************************************************)
None == << >>

Some(v) == << v >>

\* Identifiers: uuid4 strings in the source, numbered in order of creation.
Ids == 1..(IF MaxQueue > MaxPapers THEN MaxQueue ELSE MaxPapers)

Difficulties == {"easy", "medium", "hard"}

Titles == {"Test"}

\* AppConfig.srs_parameters as the default factory builds it.
DefaultSRS ==
    [ initial_ease_factor   |-> F2_5,
      minimum_interval_days |-> 1,
      maximum_interval_days |-> 365,
      easy_bonus            |-> F1_3,
      hard_penalty          |-> F0_8 ]

\* A configuration file with other tunables: a narrow interval range and
\* strong multipliers, with which the floor of the ease factor and both
\* clamps of the interval act within a few reviews.
NarrowSRS ==
    [ initial_ease_factor   |-> F2_0,
      minimum_interval_days |-> 2,
      maximum_interval_days |-> 5,
      easy_bonus            |-> F1_5,
      hard_penalty          |-> F0_5 ]

Configs == { DefaultSRS, NarrowSRS }

\* timedelta(days = d) in clock ticks.
timedelta(d) == d * TicksPerDay

(***************************************************************************)
(* Flashpaper: the fields of the model that the store and the scheduler    *)
(* read or write.  paper_title stands for the content fields.              *)
(***************************************************************************)
Flashpaper(id, title, t) ==
    [ id               |-> id,
      paper_title      |-> title,
      added_date       |-> t,
      next_review_date |-> None,
      review_count     |-> 0,
      ease_factor      |-> F2_5,
      interval_days    |-> 0,
      last_review_date |-> None ]

\* The field constraints pydantic checks when a Flashpaper is constructed.
Valid(fp) ==
    /\ fp.paper_title # ""
    /\ fp.review_count >= 0
    /\ ~FLess(fp.ease_factor, F1_3)
    /\ fp.interval_days >= 0

(***************************************************************************)
(* The JSON file.  model_dump() and json.dump(default=str) write a         *)
(* datetime as its str() and None as null; constructing a Flashpaper from *)
(* an item parses the string back and validates every field.              *)
(***************************************************************************)
DumpDate(d) == IF d = None THEN <<"null">> ELSE <<"str", d[1]>>

\* A faulty variant of ParseDate: null is read as the earliest date.
ParseDate_null_as_date(j) == IF j = <<"null">> THEN Some(0) ELSE Some(j[2])

ParseDate(j) == IF j = <<"null">> THEN None ELSE Some(j[2])

model_dump(fp) ==
    [ fp EXCEPT !.added_date       = <<"str", fp.added_date>>,
                !.next_review_date = DumpDate(fp.next_review_date),
                !.last_review_date = DumpDate(fp.last_review_date) ]

FromItem(item) ==
    [ item EXCEPT !.added_date       = item.added_date[2],
                  !.next_review_date = ParseDate(item.next_review_date),
                  !.last_review_date = ParseDate(item.last_review_date) ]

DumpAll(fps) == [ i \in 1..Len(fps) |-> model_dump(fps[i]) ]

ParseAll(data) == [ i \in 1..Len(data) |-> FromItem(data[i]) ]

(***************************************************************************)
(* FlashcardStorage.  A store state s is a record                          *)
(*   file, mtime            the backing file and its modification time     *)
(*   cache, cache_timestamp _cache and _cache_timestamp (None or present)  *)
(*   id_index               _id_index: None, or a map from identifier to   *)
(*                          the position in the cached list of the object  *)
(*                          the dict holds                                 *)
(* Each method is an operator from the state (and the clock reading t) to  *)
(* [s |-> the state after the call, ret |-> the value returned].           *)
(***************************************************************************)
\* The cache fields as __init__ sets them (lines 28-30).
NoCache == [ cache |-> None, cache_timestamp |-> None, id_index |-> None ]

\* The store instances on one backing file: 1 is storage, 2 is sibling.
Writers == { 1, 2 }

NewStorage ==
    [ file |-> << >>, mtime |-> 0,
      cache |-> None, cache_timestamp |-> None, id_index |-> None ]

get_cache(s) ==
    IF s.cache = None \/ s.cache_timestamp = None
    THEN [s |-> s, ret |-> None]
    ELSE IF s.mtime > s.cache_timestamp[1]
         THEN [s   |-> [s EXCEPT !.cache = None, !.cache_timestamp = None,
                                 !.id_index = None],
               ret |-> None]
         ELSE [s |-> s, ret |-> s.cache]

invalidate_cache(s) ==
    [s EXCEPT !.cache = None, !.cache_timestamp = None, !.id_index = None]

\* The list returned is the cached list itself; when an entry of the file
\* fails validation the exception is caught and a new empty list returned.
load_all(s, t) ==
    Bind(get_cache(s),
         LAMBDA c :
            IF c.ret # None
            THEN [s |-> c.s, ret |-> c.ret[1]]
            ELSE Bind(ParseAll(c.s.file),
                      LAMBDA flashpapers :
                         IF \A i \in 1..Len(flashpapers) :
                                Valid(flashpapers[i])
                         THEN [s   |-> [c.s EXCEPT
                                          !.cache = Some(flashpapers),
                                          !.cache_timestamp = Some(t),
                                          !.id_index = None],
                               ret |-> flashpapers]
                         ELSE [s |-> c.s, ret |-> << >>]))

\* {fp.id: fp for fp in flashpapers}: a later entry replaces an earlier one
\* with the same identifier.
IndexOf(flashpapers) ==
    [ id \in { flashpapers[i].id : i \in 1..Len(flashpapers) } |->
        CHOOSE i \in 1..Len(flashpapers) :
            /\ flashpapers[i].id = id
            /\ \A j \in (i + 1)..Len(flashpapers) : flashpapers[j].id # id ]

\* The lookup of line 134; ret is None or the position in the cached list
\* of the object returned.
Lookup(s, flashpaper_id) ==
    [s   |-> s,
     ret |-> IF flashpaper_id \in DOMAIN s.id_index[1]
             THEN Some(s.id_index[1][flashpaper_id]) ELSE None]

load_by_id(s, t, flashpaper_id) ==
    IF s.id_index = None
    THEN Bind(load_all(s, t),
              LAMBDA r :
                 Lookup([r.s EXCEPT !.id_index = Some(IndexOf(r.ret))],
                        flashpaper_id))
    ELSE Lookup(s, flashpaper_id)

save_all(s, t, flashpapers) ==
    [ file            |-> DumpAll(flashpapers),
      mtime           |-> t,
      cache           |-> Some(flashpapers),
      cache_timestamp |-> Some(t),
      id_index        |-> Some(IndexOf(flashpapers)) ]

\* A faulty variant of add: the new record is put before the others.
add_front(s, t, flashpaper) ==
    Bind(load_all(s, t),
         LAMBDA r : [s   |-> save_all(r.s, t, << flashpaper >> \o r.ret),
                     ret |-> flashpaper.id])

add(s, t, flashpaper) ==
    Bind(load_all(s, t),
         LAMBDA r : [s   |-> save_all(r.s, t, Append(r.ret, flashpaper)),
                     ret |-> flashpaper.id])

\* The first position of the list that holds the identifier, or 0.
FirstWithId(flashpapers, id) ==
    IF \E i \in 1..Len(flashpapers) : flashpapers[i].id = id
    THEN CHOOSE i \in 1..Len(flashpapers) :
            /\ flashpapers[i].id = id
            /\ \A j \in 1..(i - 1) : flashpapers[j].id # id
    ELSE 0

\* A faulty variant of update: an unknown identifier is appended.
update_upsert(s, t, flashpaper) ==
    Bind(load_all(s, t),
         LAMBDA r :
            Bind(FirstWithId(r.ret, flashpaper.id),
                 LAMBDA i :
                    IF i = 0
                    THEN [s   |-> save_all(r.s, t,
                                           Append(r.ret, flashpaper)),
                          ret |-> FALSE]
                    ELSE [s   |-> save_all(r.s, t,
                                           [r.ret EXCEPT ![i] = flashpaper]),
                          ret |-> TRUE]))

\* A faulty variant of update: the stored record keeps its added_date.
update_keeps_added_date(s, t, flashpaper) ==
    Bind(load_all(s, t),
         LAMBDA r :
            Bind(FirstWithId(r.ret, flashpaper.id),
                 LAMBDA i :
                    IF i = 0
                    THEN [s |-> r.s, ret |-> FALSE]
                    ELSE [s   |-> save_all(r.s, t,
                                    [r.ret EXCEPT ![i] =
                                       [flashpaper EXCEPT !.added_date =
                                          r.ret[i].added_date]]),
                          ret |-> TRUE]))

update(s, t, flashpaper) ==
    Bind(load_all(s, t),
         LAMBDA r :
            Bind(FirstWithId(r.ret, flashpaper.id),
                 LAMBDA i :
                    IF i = 0
                    THEN [s |-> r.s, ret |-> FALSE]
                    ELSE [s   |-> save_all(r.s, t,
                                           [r.ret EXCEPT ![i] = flashpaper]),
                          ret |-> TRUE]))

\* A faulty variant of delete: the length test of line 198 is missing.
delete_unchecked(s, t, flashpaper_id) ==
    Bind(load_all(s, t),
         LAMBDA r :
            [s   |-> save_all(r.s, t,
                              SelectSeq(r.ret,
                                        LAMBDA fp : fp.id # flashpaper_id)),
             ret |-> TRUE])

\* The list without the records of that identifier is a new list; it is
\* saved only when it is shorter.
delete(s, t, flashpaper_id) ==
    Bind(load_all(s, t),
         LAMBDA r :
            Bind(SelectSeq(r.ret, LAMBDA fp : fp.id # flashpaper_id),
                 LAMBDA flashpapers :
                    IF Len(flashpapers) < Len(r.ret)
                    THEN [s |-> save_all(r.s, t, flashpapers), ret |-> TRUE]
                    ELSE [s |-> r.s, ret |-> FALSE]))

get_count(s, t) ==
    Bind(get_cache(s),
         LAMBDA c :
            IF c.ret # None
            THEN [s |-> c.s, ret |-> Len(c.ret[1])]
            ELSE Bind(load_all(c.s, t),
                      LAMBDA r : [s |-> r.s, ret |-> Len(r.ret)]))

(***************************************************************************)
(* Two instances on one file.  add, update and delete are each a load_all  *)
(* that gives the list to work on (the snapshot), a change of that list,   *)
(* and a save_all; nothing keeps another instance from running between     *)
(* the load and the save.  A write in progress is                           *)
(*   [flashpapers |-> the list to save, snapshot |-> the list loaded,       *)
(*    change |-> what is done to it, id |-> the identifier concerned].      *)
(***************************************************************************)
\* The store state of the sibling instance: the shared file with the
\* sibling's own cache fields.
StoreOf(w, st, sib) ==
    IF w = 1 THEN st
    ELSE [ file |-> st.file, mtime |-> st.mtime,
           cache |-> sib.cache, cache_timestamp |-> sib.cache_timestamp,
           id_index |-> sib.id_index ]

CacheOf(s) ==
    [ cache |-> s.cache, cache_timestamp |-> s.cache_timestamp,
      id_index |-> s.id_index ]

\* add up to the save: the list load_all returned is the cached list when
\* the load succeeded, and append changes it in place (lines 161-162).
begin_add(s, t, flashpaper) ==
    Bind(load_all(s, t),
         LAMBDA r :
            Bind(Append(r.ret, flashpaper),
                 LAMBDA flashpapers :
                    [s   |-> IF r.s.cache = None THEN r.s
                             ELSE [r.s EXCEPT !.cache = Some(flashpapers)],
                     ret |-> Some([ flashpapers |-> flashpapers,
                                    snapshot    |-> r.ret,
                                    change      |-> "add",
                                    id          |-> flashpaper.id ])]))

\* update up to the save: the assignment of line 178 changes the cached
\* list in place; ret is None when no record has the identifier.
begin_update(s, t, flashpaper) ==
    Bind(load_all(s, t),
         LAMBDA r :
            Bind(FirstWithId(r.ret, flashpaper.id),
                 LAMBDA i :
                    IF i = 0
                    THEN [s |-> r.s, ret |-> None]
                    ELSE Bind([r.ret EXCEPT ![i] = flashpaper],
                              LAMBDA flashpapers :
                                 [s   |-> [r.s EXCEPT
                                             !.cache = Some(flashpapers)],
                                  ret |-> Some([ flashpapers |-> flashpapers,
                                                 snapshot    |-> r.ret,
                                                 change      |-> "update",
                                                 id |-> flashpaper.id ])])))

\* delete up to the save: the filtered list is a new list (line 196); ret
\* is None when it is not shorter.
begin_delete(s, t, flashpaper_id) ==
    Bind(load_all(s, t),
         LAMBDA r :
            Bind(SelectSeq(r.ret, LAMBDA fp : fp.id # flashpaper_id),
                 LAMBDA flashpapers :
                    IF Len(flashpapers) < Len(r.ret)
                    THEN [s   |-> r.s,
                          ret |-> Some([ flashpapers |-> flashpapers,
                                         snapshot    |-> r.ret,
                                         change      |-> "delete",
                                         id          |-> flashpaper_id ])]
                    ELSE [s |-> r.s, ret |-> None]))

\* A faulty variant of write_back: the file is read again and the change
\* is made to what it holds now.
write_back_reloading(s, t, p) ==
    Bind(load_all(invalidate_cache(s), t),
         LAMBDA r :
            save_all(r.s, t,
                     IF p.change = "add"
                     THEN Append(r.ret, p.flashpapers[FirstWithId(p.flashpapers, p.id)])
                     ELSE IF p.change = "delete"
                     THEN SelectSeq(r.ret, LAMBDA fp : fp.id # p.id)
                     ELSE [ i \in 1..Len(r.ret) |->
                              IF r.ret[i].id = p.id
                              THEN p.flashpapers[FirstWithId(p.flashpapers, p.id)]
                              ELSE r.ret[i] ]))

\* The save_all that ends add, update and delete (lines 163, 179, 199).
write_back(s, t, p) == save_all(s, t, p.flashpapers)

(***************************************************************************)
(* Backups.  A file is [file |-> its contents, mtime |-> its modification  *)
(* time]; bk maps the paths of the backup files that exist to the files.   *)
(* A path is <<directory, name>>.                                          *)
(***************************************************************************)
NoFiles == [ p \in {} |-> p ]

\* storage_path.parent / "backups"
DefaultBackupDir == "backups"

BackupDirs == { DefaultBackupDir, "elsewhere" }

\* datetime.now().strftime("%Y%m%d_%H%M%S"): the clock read to the second,
\* the unit of the model's clock.
strftime(t) == t

BackupPath(backup_dir, t) == << backup_dir, strftime(t) >>

\* shutil.copy2(src, dst): dst gets the contents and the modification time
\* of src, and replaces a file that is already there.
copy2(bk, f, path) ==
    [ p \in DOMAIN bk \cup { path } |-> IF p = path THEN f ELSE bk[p] ]

\* A faulty variant of create_backup: the cached list, its stamp and the
\* identifier index are dropped once the copy is made.
create_backup_dropping_cache(s, bk, t, backup_dir) ==
    Bind(BackupPath(IF backup_dir = None THEN DefaultBackupDir
                    ELSE backup_dir[1], t),
         LAMBDA backup_path :
            [s   |-> invalidate_cache(s),
             bk  |-> copy2(bk, [file |-> s.file, mtime |-> s.mtime],
                           backup_path),
             ret |-> backup_path])

\* backup_dir is None for the default directory.
create_backup(s, bk, t, backup_dir) ==
    Bind(BackupPath(IF backup_dir = None THEN DefaultBackupDir
                    ELSE backup_dir[1], t),
         LAMBDA backup_path :
            [s   |-> s,
             bk  |-> copy2(bk, [file |-> s.file, mtime |-> s.mtime],
                           backup_path),
             ret |-> backup_path])

\* json.load and the construction of every Flashpaper succeed.
WellFormed(data) == \A i \in 1..Len(data) : Valid(FromItem(data[i]))

\* Contents that do not decode: an item that fails validation stands for
\* them (a truncated file, text that is not JSON, a missing field).
Undecodable == << model_dump(Flashpaper(0, "", 0)) >>

\* How the copy of line 242 ends: it completes, it raises before the live
\* file is opened for writing, or it raises while writing.
CopyOutcomes == { "ok", "refused", "partial" }

\* A faulty variant of restore_from_backup: the cache is kept after the
\* live file is overwritten.
restore_from_backup_keeping_cache(s, bk, t, backup_path, outcome) ==
    IF backup_path \notin DOMAIN bk
    THEN [s |-> s, bk |-> bk, ret |-> FALSE]
    ELSE IF ~WellFormed(bk[backup_path].file)
    THEN [s |-> s, bk |-> bk, ret |-> FALSE]
    ELSE Bind(create_backup(s, bk, t, None),
              LAMBDA c :
                 IF outcome = "refused"
                 THEN [s |-> c.s, bk |-> c.bk, ret |-> FALSE]
                 ELSE IF outcome = "partial"
                 THEN [s   |-> [c.s EXCEPT !.file = Undecodable,
                                            !.mtime = t],
                       bk  |-> c.bk,
                       ret |-> FALSE]
                 ELSE [s   |-> [c.s EXCEPT
                                  !.file = c.bk[backup_path].file,
                                  !.mtime = c.bk[backup_path].mtime],
                       bk  |-> c.bk,
                       ret |-> TRUE])

\* The exception of any step is caught and False returned.
restore_from_backup(s, bk, t, backup_path, outcome) ==
    IF backup_path \notin DOMAIN bk
    THEN [s |-> s, bk |-> bk, ret |-> FALSE]
    ELSE IF ~WellFormed(bk[backup_path].file)
    THEN [s |-> s, bk |-> bk, ret |-> FALSE]
    ELSE Bind(create_backup(s, bk, t, None),
              LAMBDA c :
                 IF outcome = "refused"
                 THEN [s |-> c.s, bk |-> c.bk, ret |-> FALSE]
                 ELSE IF outcome = "partial"
                 THEN [s   |-> [c.s EXCEPT !.file = Undecodable,
                                            !.mtime = t],
                       bk  |-> c.bk,
                       ret |-> FALSE]
                 ELSE [s   |-> invalidate_cache(
                                 [c.s EXCEPT
                                    !.file = c.bk[backup_path].file,
                                    !.mtime = c.bk[backup_path].mtime]),
                       bk  |-> c.bk,
                       ret |-> TRUE])

(***************************************************************************)
(* FlashcardDataHandler.  cfg is self.config.srs_parameters.               *)
(***************************************************************************)
\* A faulty variant of add_flashcard: the ease factor is left at the
\* default of the model instead of the configured initial value.
add_flashcard_default_ease(s, cfg, t1, t2, id, paper_title) ==
    add(s, t2,
        [ Flashpaper(id, paper_title, t1) EXCEPT
            !.next_review_date =
                Some(t2 + timedelta(cfg.minimum_interval_days)) ])

\* t1 is the clock when the Flashpaper is constructed (added_date), t2 the
\* clock when the initial review date is set and the record is stored.
add_flashcard(s, cfg, t1, t2, id, paper_title) ==
    add(s, t2,
        [ Flashpaper(id, paper_title, t1) EXCEPT
            !.next_review_date =
                Some(t2 + timedelta(cfg.minimum_interval_days)),
            !.ease_factor = cfg.initial_ease_factor ])

\* datetime.min, which stands for an absent review date in the sort key.
datetime_min == -1

SortKey(fp) ==
    IF fp.next_review_date = None THEN datetime_min
    ELSE fp.next_review_date[1]

\* x placed in the sorted list after the entries whose key is not greater.
InsertByKey(sorted, x) ==
    Bind(Cardinality({ i \in 1..Len(sorted) :
                         SortKey(sorted[i]) <= SortKey(x) }),
         LAMBDA k : SubSeq(sorted, 1, k) \o << x >>
                    \o SubSeq(sorted, k + 1, Len(sorted)))

\* list.sort(key = ...): stable, ascending by key.
RECURSIVE SortByKey(_)
SortByKey(fps) ==
    IF fps = << >> THEN << >>
    ELSE InsertByKey(SortByKey(SubSeq(fps, 1, Len(fps) - 1)), fps[Len(fps)])

\* A faulty variant of IsDue: a record whose date is exactly now is not due.
IsDue_strict(fp, t) ==
    fp.next_review_date = None \/ fp.next_review_date[1] < t

IsDue(fp, t) ==
    fp.next_review_date = None \/ fp.next_review_date[1] <= t

DuePapers(flashpapers, t) ==
    SelectSeq(flashpapers, LAMBDA fp : IsDue(fp, t))

\* due_papers[:limit] for limit >= 0.
Take(fps, limit) ==
    SubSeq(fps, 1, IF limit < Len(fps) THEN limit ELSE Len(fps))

\* limit is None or Some(n), n >= 0; "if limit" is false for None and for 0.
get_flashcards_for_review(s, t, limit) ==
    Bind(load_all(s, t),
         LAMBDA r :
            Bind(SortByKey(DuePapers(r.ret, t)),
                 LAMBDA due_papers :
                    [s   |-> r.s,
                     ret |-> IF limit # None /\ limit[1] # 0
                             THEN Take(due_papers, limit[1])
                             ELSE due_papers]))

(***************************************************************************)
(* AnalyticsUtils.                                                         *)
(***************************************************************************)
\* datetime.date(): the day a clock reading lies in.
date(t) == t \div TicksPerDay

\* The count of lines 53-59: the records that have a next_review_date
\* whose day is not after today.
papers_due_today(flashpapers, t) ==
    Len(SelectSeq(flashpapers,
                  LAMBDA fp : /\ fp.next_review_date # None
                              /\ date(fp.next_review_date[1]) <= date(t)))

\* A faulty variant of NewEase: the floor of line 139 is missing.
NewEase_unfloored(ease_factor, difficulty, cfg) ==
    IF difficulty = "easy" THEN FMul(ease_factor, cfg.easy_bonus)
    ELSE IF difficulty = "hard" THEN FMul(ease_factor, cfg.hard_penalty)
    ELSE ease_factor

\* A faulty variant of NewEase: "medium" is penalised like "hard".
NewEase_medium_penalised(ease_factor, difficulty, cfg) ==
    FMax(F1_3,
         IF difficulty = "easy" THEN FMul(ease_factor, cfg.easy_bonus)
         ELSE FMul(ease_factor, cfg.hard_penalty))

\* The ease factor after a rating: lines 132-139.
NewEase(ease_factor, difficulty, cfg) ==
    FMax(F1_3,
         IF difficulty = "easy" THEN FMul(ease_factor, cfg.easy_bonus)
         ELSE IF difficulty = "hard" THEN FMul(ease_factor, cfg.hard_penalty)
         ELSE ease_factor)

IntMax(a, b) == IF b > a THEN b ELSE a

IntMin(a, b) == IF b < a THEN b ELSE a

\* A faulty variant of NewInterval: the upper clamp of line 149 is missing.
NewInterval_uncapped(interval_days, ease_factor, cfg) ==
    IntMax(cfg.minimum_interval_days,
           IF interval_days = 0 THEN cfg.minimum_interval_days
           ELSE FTrunc(FMul(FromInt(interval_days), ease_factor)))

\* A faulty variant of NewInterval: a record whose ease factor is below
\* 2.5 starts again at the minimum interval.
NewInterval_restarting(interval_days, ease_factor, cfg) ==
    IntMin(cfg.maximum_interval_days,
           IntMax(cfg.minimum_interval_days,
                  IF interval_days = 0 \/ FLess(ease_factor, F2_5)
                  THEN cfg.minimum_interval_days
                  ELSE FTrunc(FMul(FromInt(interval_days), ease_factor))))

\* The interval after a rating, from the current interval and the adjusted
\* ease factor: lines 141-149.
NewInterval(interval_days, ease_factor, cfg) ==
    IntMin(cfg.maximum_interval_days,
           IntMax(cfg.minimum_interval_days,
                  IF interval_days = 0 THEN cfg.minimum_interval_days
                  ELSE FTrunc(FMul(FromInt(interval_days), ease_factor))))

\* A faulty variant of Commit: the next review date is the time of the
\* review, the interval is not added.
Commit_due_at_review(flashpaper, ease_factor, new_interval, timestamp) ==
    [ flashpaper EXCEPT
        !.ease_factor      = ease_factor,
        !.interval_days    = new_interval,
        !.last_review_date = Some(timestamp),
        !.next_review_date = Some(timestamp),
        !.review_count     = flashpaper.review_count + 1 ]

\* A faulty variant of Commit: the next review date is computed from the
\* interval the record had before the review.
Commit_old_interval(flashpaper, ease_factor, new_interval, timestamp) ==
    [ flashpaper EXCEPT
        !.ease_factor      = ease_factor,
        !.interval_days    = new_interval,
        !.last_review_date = Some(timestamp),
        !.next_review_date =
            Some(timestamp + timedelta(flashpaper.interval_days)),
        !.review_count     = flashpaper.review_count + 1 ]

\* The assignments of lines 151-155.
Commit(flashpaper, ease_factor, new_interval, timestamp) ==
    [ flashpaper EXCEPT
        !.ease_factor      = ease_factor,
        !.interval_days    = new_interval,
        !.last_review_date = Some(timestamp),
        !.next_review_date = Some(timestamp + timedelta(new_interval)),
        !.review_count     = flashpaper.review_count + 1 ]

\* A faulty variant of Reviewed: the interval is computed from the ease
\* factor as it was before the rating adjusted it.
Reviewed_stale_ease(flashpaper, response, cfg) ==
    Bind(NewEase(flashpaper.ease_factor, response.difficulty, cfg),
         LAMBDA ease_factor :
            Bind(NewInterval(flashpaper.interval_days,
                             flashpaper.ease_factor, cfg),
                 LAMBDA new_interval :
                    Commit(flashpaper, ease_factor, new_interval,
                           response.timestamp)))

\* The record after a review: lines 132-155.
Reviewed(flashpaper, response, cfg) ==
    Bind(NewEase(flashpaper.ease_factor, response.difficulty, cfg),
         LAMBDA ease_factor :
            Bind(NewInterval(flashpaper.interval_days, ease_factor, cfg),
                 LAMBDA new_interval :
                    Commit(flashpaper, ease_factor, new_interval,
                           response.timestamp)))

\* A faulty variant of process_review: a review of an unknown identifier
\* creates and stores a record for it.
process_review_upsert(s, cfg, t, response) ==
    Bind(load_by_id(s, t, response.flashpaper_id),
         LAMBDA l :
            IF l.ret = None
            THEN [s   |-> add(l.s, t,
                              Reviewed(Flashpaper(response.flashpaper_id,
                                                  "Test", t),
                                       response, cfg)).s,
                  ret |-> FALSE]
            ELSE Bind(Reviewed(l.s.cache[1][l.ret[1]], response, cfg),
                      LAMBDA flashpaper :
                         update([ l.s EXCEPT !.cache[1][l.ret[1]] =
                                                 flashpaper ],
                                t, flashpaper)))

\* The object load_by_id returned is the cached one: the assignments of
\* lines 134-155 change it in place, before update stores it.
process_review(s, cfg, t, response) ==
    Bind(load_by_id(s, t, response.flashpaper_id),
         LAMBDA l :
            IF l.ret = None
            THEN [s |-> l.s, ret |-> FALSE]
            ELSE Bind(Reviewed(l.s.cache[1][l.ret[1]], response, cfg),
                      LAMBDA flashpaper :
                         update([ l.s EXCEPT !.cache[1][l.ret[1]] =
                                                 flashpaper ],
                                t, flashpaper)))

\* Flashpaper(paper_title = ..., authors = ..., **kwargs) as pydantic
\* constructs it: the fields are validated, and None stands for the
\* ValidationError.  ease_factor is None when the caller passes none.
Construct(id, paper_title, authors, ease_factor, t) ==
    Bind([ Flashpaper(id, paper_title, t) EXCEPT
             !.ease_factor = IF ease_factor = None THEN @
                             ELSE ease_factor[1] ],
         LAMBDA fp : IF Valid(fp) /\ authors # "" THEN Some(fp) ELSE None)

\* A faulty variant of add_flashcard_with: the record is stored with the
\* handler's values before its fields are validated.
add_flashcard_storing_first(s, cfg, t1, t2, id, paper_title, authors, ease_factor) ==
    Bind(add_flashcard(s, cfg, t1, t2, id, paper_title),
         LAMBDA r :
            IF Construct(id, paper_title, authors, ease_factor, t1) = None
            THEN [s |-> r.s, ret |-> None, raised |-> TRUE]
            ELSE [s |-> r.s, ret |-> Some(r.ret), raised |-> FALSE])

\* handler.add_flashcard(paper_title, authors, ease_factor = ...): the
\* Flashpaper is constructed (lines 61-66) before the handler sets the
\* review date and the ease factor and calls storage.add.
add_flashcard_with(s, cfg, t1, t2, id, paper_title, authors, ease_factor) ==
    IF Construct(id, paper_title, authors, ease_factor, t1) = None
    THEN [s |-> s, ret |-> None, raised |-> TRUE]
    ELSE Bind(add_flashcard(s, cfg, t1, t2, id, paper_title),
              LAMBDA r : [s |-> r.s, ret |-> Some(r.ret), raised |-> FALSE])

\* ReviewResponse(flashpaper_id = ..., difficulty = ..., timestamp = ...):
\* None stands for the ValidationError of the difficulty pattern.
ReviewResponse(flashpaper_id, difficulty, timestamp) ==
    IF difficulty \in Difficulties
    THEN Some([ flashpaper_id |-> flashpaper_id,
                difficulty    |-> difficulty,
                timestamp     |-> timestamp ])
    ELSE None

(***************************************************************************)
(* SearchUtils.  A text is the sequence of its characters; a record of a    *)
(* snapshot has the fields the search reads: paper_title (which stands for *)
(* the content fields), authors, keywords and category.                    *)
(***************************************************************************)
\* str.lower() of one character.
LowerChar(c) ==
    IF c = "A" THEN "a" ELSE IF c = "B" THEN "b" ELSE IF c = "C" THEN "c"
    ELSE IF c = "X" THEN "x" ELSE c

lower(text) == [ i \in 1..Len(text) |-> LowerChar(text[i]) ]

\* str.strip(): the text without its leading and trailing blanks.
RECURSIVE strip(_)
strip(text) ==
    IF text = << >> THEN text
    ELSE IF Head(text) = " " THEN strip(Tail(text))
    ELSE IF text[Len(text)] = " " THEN strip(SubSeq(text, 1, Len(text) - 1))
    ELSE text

\* " ".join(parts)
RECURSIVE join(_)
join(parts) ==
    IF parts = << >> THEN << >>
    ELSE IF Len(parts) = 1 THEN parts[1]
    ELSE parts[1] \o << " " >> \o join(Tail(parts))

\* query in text
Contains(query, text) ==
    \E i \in 0..(Len(text) - Len(query)) :
        SubSeq(text, i + 1, i + Len(query)) = query

\* The text of lines 71-86.
searchable_text(fp) ==
    lower(join(<< fp.paper_title, fp.authors, join(fp.keywords),
                  join(fp.category) >>))

\* value in values, for a list
In(value, values) == \E i \in 1..Len(values) : values[i] = value

\* A faulty variant of search_flashcards: a record passes when it passes
\* the category filter or the keyword filter.
search_flashcards_either(query, categories, keywords, flashpapers) ==
    Bind(strip(lower(query)),
         LAMBDA query_lower :
            SelectSeq(flashpapers,
                      LAMBDA fp :
                         IF /\ categories # None /\ categories[1] # << >>
                            /\ keywords # None /\ keywords[1] # << >>
                            /\ ~\E i \in 1..Len(categories[1]) :
                                   In(categories[1][i], fp.category)
                            /\ ~\E i \in 1..Len(keywords[1]) :
                                   In(keywords[1][i], fp.keywords)
                         THEN FALSE
                         ELSE IF query_lower # << >>
                         THEN Contains(query_lower, searchable_text(fp))
                         ELSE TRUE))

\* The loop of lines 57-93: a record is skipped by the first test it
\* fails; "if categories" is false for None and for the empty list.
search_flashcards(query, categories, keywords, flashpapers) ==
    Bind(strip(lower(query)),
         LAMBDA query_lower :
            SelectSeq(flashpapers,
                      LAMBDA fp :
                         IF /\ categories # None
                            /\ categories[1] # << >>
                            /\ ~\E i \in 1..Len(categories[1]) :
                                   In(categories[1][i], fp.category)
                         THEN FALSE
                         ELSE IF /\ keywords # None
                                 /\ keywords[1] # << >>
                                 /\ ~\E i \in 1..Len(keywords[1]) :
                                        In(keywords[1][i], fp.keywords)
                         THEN FALSE
                         ELSE IF query_lower # << >>
                         THEN Contains(query_lower, searchable_text(fp))
                         ELSE TRUE))

\* The position list.sort(key = added_date, reverse = True) gives the
\* object at position i: the sort is stable, so objects with equal dates
\* keep their order.
SortedPosition(flashpapers, i) ==
    1 + Cardinality({ j \in 1..Len(flashpapers) :
                        \/ flashpapers[j].added_date > flashpapers[i].added_date
                        \/ /\ flashpapers[j].added_date
                                = flashpapers[i].added_date
                           /\ j < i })

\* search_utils.get_recent_papers(limit) without a list: the list that
\* load_all returns is sorted in place (line 213).  When that list is the
\* store's cached list, the cache holds the sorted order afterwards and
\* the index still holds the same objects, now at other positions.
get_recent_papers(s, t, limit) ==
    Bind(load_all(s, t),
         LAMBDA r :
            Bind([ k \in 1..Len(r.ret) |->
                     r.ret[CHOOSE i \in 1..Len(r.ret) :
                               SortedPosition(r.ret, i) = k] ],
                 LAMBDA sorted :
                    [s   |-> IF r.s.cache = Some(r.ret)
                             THEN [ r.s EXCEPT
                                      !.cache = Some(sorted),
                                      !.id_index =
                                         IF @ = None THEN None
                                         ELSE Some([ id \in DOMAIN @[1] |->
                                                 SortedPosition(r.ret,
                                                                @[1][id]) ]) ]
                             ELSE r.s,
                     ret |-> SubSeq(sorted, 1,
                                    IF limit < Len(sorted) THEN limit
                                    ELSE Len(sorted))]))

(***************************************************************************)
(* The state machine: one handler on one store, called from a single       *)
(* thread.                                                                 *)
(*   storage   the FlashcardStorage state                                  *)
(*   backups   the backup files, by path                                    *)
(*   backup_calls  the calls of create_backup and restore_from_backup so far *)
(*   sibling   _cache, _cache_timestamp and _id_index of a second            *)
(*             FlashcardStorage on the same backing file                    *)
(*   pending   per store instance, the list a write has built from its      *)
(*             load_all and has not saved yet (None between writes)         *)
(*   config    the handler's srs_parameters                                *)
(*   now       the clock, in ticks                                         *)
(*   next_id   the next fresh identifier (uuid4 never repeats)             *)
(*   ratings   per identifier, the ratings of its successful reviews       *)
(*   last      the last call: its name, its arguments, its result          *)
(***************************************************************************)
VARIABLES storage, backups, backup_calls, sibling, pending, config,
          config_manager, now, next_id, ratings, last

vars ==
    << storage, backups, backup_calls, sibling, pending, config,
       config_manager, now, next_id, ratings, last >>

Call(op, id, ret) == [op |-> op, id |-> id, ret |-> ret]

RECURSIVE SumLen(_, _)
SumLen(f, n) == IF n = 0 THEN 0 ELSE Len(f[n]) + SumLen(f, n - 1)

\* The successful reviews so far.
TotalReviews == SumLen(ratings, Cardinality(Ids))

Init ==
    /\ storage = NewStorage
    /\ backups = NoFiles
    /\ backup_calls = 0
    /\ sibling = NoCache
    /\ pending = [ w \in Writers |-> None ]
    /\ config \in Configs
    /\ config_manager = [ srs_parameters |-> config, held |-> TRUE ]
    /\ now = 0
    /\ next_id = 1
    /\ ratings = [ id \in Ids |-> << >> ]
    /\ last = Call("init", 0, TRUE)

\* handler.add_flashcard(paper_title=..., authors=...); the clock may
\* advance between the two readings the call takes.
AddFlashcard(max_papers) ==
    \E paper_title \in Titles, t2 \in { now, now + 1 } :
        /\ next_id <= max_papers
        /\ t2 <= MaxClock
        /\ \E r \in { add_flashcard(storage, config, now, t2, next_id,
                                    paper_title) } :
               /\ storage' = r.s
               /\ last' = Call("add_flashcard", next_id, r.ret)
        /\ now' = t2
        /\ next_id' = next_id + 1
        /\ UNCHANGED << config_manager, sibling, pending, backups, backup_calls, config, ratings >>

\* storage.add(flashpaper) for a Flashpaper the caller constructed, with a
\* next_review_date out of dates (absent unless the caller sets it).
StorageAdd(max_papers, dates) ==
    \E paper_title \in Titles, next_review_date \in dates :
        /\ next_id <= max_papers
        /\ \E r \in { add(storage, now,
                          [ Flashpaper(next_id, paper_title, now) EXCEPT
                              !.next_review_date = next_review_date ]) } :
               /\ storage' = r.s
               /\ last' = Call("add", next_id, r.ret)
        /\ next_id' = next_id + 1
        /\ UNCHANGED << config_manager, sibling, pending, backups, backup_calls, config, now, ratings >>

\* handler.process_review(ReviewResponse(flashpaper_id, difficulty,
\* timestamp)); the timestamp defaults to the clock when the response was
\* constructed, which may be earlier than the call.
ProcessReview(max_reviews) ==
    \E id \in Ids, difficulty \in Difficulties, timestamp \in { now - 1, now } :
        /\ timestamp >= 0
        /\ TotalReviews < max_reviews
        /\ \E response \in { [ flashpaper_id |-> id,
                               difficulty    |-> difficulty,
                               timestamp     |-> timestamp ] } :
           \E r \in { process_review(storage, config, now, response) } :
               /\ storage' = r.s
               /\ last' = [ op |-> "process_review", id |-> id,
                            ret |-> r.ret, response |-> response ]
               /\ ratings' = IF r.ret
                             THEN [ ratings EXCEPT
                                      ![id] = Append(@, difficulty) ]
                             ELSE ratings
        /\ UNCHANGED << config_manager, sibling, pending, backups, backup_calls, config, now, next_id >>

\* The limits the callers pass: none, 0, 1, 2.
Limits == { None } \cup { Some(n) : n \in 0..2 }

\* handler.get_flashcards_for_review(limit)
GetForReview ==
    \E limit \in Limits :
        \E r \in { get_flashcards_for_review(storage, now, limit) } :
            /\ storage' = r.s
            /\ last' = [ op |-> "get_flashcards_for_review", id |-> 0,
                         ret |-> r.ret, limit |-> limit ]
            /\ UNCHANGED << config_manager, sibling, pending, backups, backup_calls, config, now, next_id,
                            ratings >>

\* analytics.get_analytics() without a list: the counts over load_all().
GetAnalytics ==
    \E r \in { load_all(storage, now) } :
        /\ storage' = r.s
        /\ last' = [ op |-> "get_analytics", id |-> 0,
                     ret |-> papers_due_today(r.ret, now),
                     total_papers |-> Len(r.ret),
                     reviewed_papers |->
                        Len(SelectSeq(r.ret,
                                      LAMBDA fp : fp.review_count > 0)) ]
        /\ UNCHANGED << config_manager, sibling, pending, backups, backup_calls, config, now,
                        next_id, ratings >>

\* config_manager.update(srs_parameters = ...): load() returns the
\* manager's AppConfig and setattr changes it in place (config.py lines
\* 63-66); the handler sees the change when its self.config is that
\* object.
ConfigUpdate ==
    \E srs_parameters \in Configs :
        /\ srs_parameters # config_manager.srs_parameters
        /\ config_manager' = [ config_manager EXCEPT
                                 !.srs_parameters = srs_parameters ]
        /\ config' = IF config_manager.held THEN srs_parameters ELSE config
        /\ last' = Call("update_config", 0, TRUE)
        /\ UNCHANGED << storage, sibling, pending, backups, backup_calls,
                        now, next_id, ratings >>

\* config_manager.reset_to_defaults(): the manager takes a new AppConfig
\* (line 80); the handler keeps the object it read when it was
\* constructed (data_handler.py line 28).
ResetToDefaults ==
    /\ config_manager' = [ srs_parameters |-> DefaultSRS, held |-> FALSE ]
    /\ last' = Call("reset_to_defaults", 0, TRUE)
    /\ UNCHANGED << storage, sibling, pending, backups, backup_calls,
                    config, now, next_id, ratings >>

\* storage.invalidate_cache(), as the pages call it
InvalidateCache ==
    /\ storage' = invalidate_cache(storage)
    /\ last' = Call("invalidate_cache", 0, TRUE)
    /\ UNCHANGED << config_manager, sibling, pending, backups, backup_calls, config, now, next_id,
                            ratings >>

\* Time passes between calls.
Tick ==
    /\ now < MaxClock
    /\ now' = now + 1
    /\ last' = Call("tick", 0, TRUE)
    /\ UNCHANGED << config_manager, sibling, pending, storage, backups, backup_calls, config, next_id,
                    ratings >>

\* The titles of the records a caller passes to update.
UpdateTitles == { "Test", "Edited" }

\* storage.update(flashpaper) for a Flashpaper the caller constructed with
\* the identifier id, stored or not.
StorageUpdate ==
    \E id \in Ids, paper_title \in UpdateTitles :
        \E flashpaper \in { Flashpaper(id, paper_title, now) } :
        \E r \in { update(storage, now, flashpaper) } :
            /\ storage' = r.s
            /\ last' = [ op |-> "update", id |-> id, ret |-> r.ret,
                         flashpaper |-> flashpaper ]
            /\ UNCHANGED << config_manager, sibling, pending, backups, backup_calls, config, now, next_id,
                            ratings >>

\* storage.add(flashpaper) for a Flashpaper that carries an identifier the
\* store already holds: the same object added again, or a record made
\* with id = ... from an import.
AddAgain ==
    \E id \in 1..(next_id - 1), paper_title \in UpdateTitles :
        /\ Len(storage.file) < MaxQueue
        /\ \E r \in { add(storage, now, Flashpaper(id, paper_title, now)) } :
               /\ storage' = r.s
               /\ last' = Call("add", id, r.ret)
        /\ UNCHANGED << config_manager, sibling, pending, backups, backup_calls, config, now,
                        next_id, ratings >>

\* storage.delete(flashpaper_id); again tells a call that repeats a
\* successful delete of the same identifier.
StorageDelete ==
    \E id \in Ids :
        \E r \in { delete(storage, now, id) } :
            /\ storage' = r.s
            /\ last' = [ op |-> "delete", id |-> id, ret |-> r.ret,
                         again |-> /\ last.op = "delete"
                                   /\ last.id = id
                                   /\ last.ret ]
            /\ UNCHANGED << config_manager, sibling, pending, backups, backup_calls, config, now, next_id,
                            ratings >>

\* paper = storage.load_by_id(id); paper.paper_title = "Edited": the caller
\* changes a field of the object it was handed and does not call update.
MutateLoaded ==
    \E id \in Ids :
        \E r \in { load_by_id(storage, now, id) } :
            /\ r.ret # None
            /\ r.s.cache[1][r.ret[1]].paper_title # "Edited"
            /\ storage' = [ r.s EXCEPT
                              !.cache[1][r.ret[1]].paper_title = "Edited" ]
            /\ last' = Call("mutate", id, TRUE)
            /\ UNCHANGED << config_manager, sibling, pending, backups, backup_calls, config, now, next_id,
                            ratings >>

\* storage.load_by_id(id) by a caller that only reads the record.
LoadById ==
    \E id \in Ids :
        \E r \in { load_by_id(storage, now, id) } :
            /\ storage' = r.s
            /\ last' = Call("load_by_id", id, r.ret # None)
            /\ UNCHANGED << config_manager, sibling, pending, backups, backup_calls, config, now, next_id,
                            ratings >>

\* storage.load_all(); cached tells whether the list came from the cache.
\* No exception leaves the call (lines 113-115 catch every Exception), so
\* raised is always false.
LoadAll ==
    \E r \in { load_all(storage, now) } :
        /\ storage' = r.s
        /\ last' = [ op |-> "load_all", id |-> 0, ret |-> r.ret,
                     cached |-> get_cache(storage).ret # None,
                     raised |-> FALSE ]
        /\ UNCHANGED << config_manager, sibling, pending, backups, backup_calls, config,
                        now, next_id, ratings >>

\* handler.add_flashcard(...) with any title, authors and ease factor.
AddFlashcardWith ==
    \E paper_title \in { "Test", "" }, authors \in { "Author", "" },
       ease_factor \in { None, Some(F0_5), Some(F2_0) } :
        /\ next_id <= MaxPapers
        /\ \E r \in { add_flashcard_with(storage, config, now, now, next_id,
                                         paper_title, authors, ease_factor) } :
               /\ storage' = r.s
               /\ last' = [ op |-> "add_flashcard", id |-> next_id,
                            ret |-> r.ret, raised |-> r.raised ]
               /\ next_id' = IF r.raised THEN next_id ELSE next_id + 1
        /\ UNCHANGED << config_manager, sibling, pending, backups, backup_calls, config, now,
                        ratings >>

\* handler.process_review(ReviewResponse(...)) with any difficulty: the
\* response is constructed before the handler is called.
ReviewWith ==
    \E id \in 1..MaxPapers, difficulty \in Difficulties \cup { "again" } :
        /\ TotalReviews < MaxReviews
        /\ \E response \in { ReviewResponse(id, difficulty, now) } :
           \E r \in { IF response = None THEN [s |-> storage, ret |-> FALSE]
                      ELSE process_review(storage, config, now,
                                          response[1]) } :
               /\ storage' = r.s
               /\ last' = [ op |-> "process_review", id |-> id,
                            ret |-> r.ret, raised |-> response = None,
                            response |-> response ]
               /\ ratings' = IF r.ret
                             THEN [ ratings EXCEPT
                                      ![id] = Append(@, difficulty) ]
                             ELSE ratings
        /\ UNCHANGED << config_manager, sibling, pending, backups, backup_calls, config, now,
                        next_id >>

\* search_utils.get_recent_papers(limit = ...), as the Search page and the
\* tests call it.
GetRecentPapers ==
    \E limit \in { 1, 2 } :
        \E r \in { get_recent_papers(storage, now, limit) } :
            /\ storage' = r.s
            /\ last' = [ op |-> "get_recent_papers", id |-> 0,
                         ret |-> r.ret, limit |-> limit ]
            /\ UNCHANGED << config_manager, sibling, pending, backups, backup_calls, config,
                            now, next_id, ratings >>

\* The identifier of a record that another process created: uuid4 gives
\* none that this process gives.
ForeignId == MaxSaved + 1

\* What another writer of the backing file leaves in it, given what it
\* found there at the time t: nothing, the records it found with their
\* titles edited, the records it found and one of its own, or contents
\* that do not decode.
ForeignContents(file, t) ==
    { << >>, Undecodable }
    \cup ( IF WellFormed(file)
           THEN { [ i \in 1..Len(file) |->
                      [ file[i] EXCEPT !.paper_title = "Edited" ] ] }
                \cup ( IF \E j \in 1..Len(file) : file[j].id = ForeignId
                       THEN { }
                       ELSE { Append(file,
                                     model_dump(Flashpaper(ForeignId, "Test",
                                                           t))) } )
           ELSE { } )

\* Another process rewrites the backing file; its modification time
\* becomes the time of the write.  advanced tells whether that is later
\* than the modification time the file had.
RewriteFile ==
    \E contents \in ForeignContents(storage.file, now) :
        /\ contents # storage.file
        /\ storage' = [ storage EXCEPT !.file = contents, !.mtime = now ]
        /\ last' = [ op |-> "rewrite", id |-> 0, ret |-> TRUE,
                     advanced |-> now > storage.mtime ]
        /\ UNCHANGED << config_manager, sibling, pending, backups, backup_calls, config,
                        now, next_id, ratings >>

\* The state after the instance w went from StoreOf(w, ...) to s.
Becomes(w, s) ==
    /\ storage' = IF w = 1 THEN s
                  ELSE [ storage EXCEPT !.file = s.file, !.mtime = s.mtime ]
    /\ sibling' = IF w = 1 THEN sibling ELSE CacheOf(s)

\* The instance w enters add(flashpaper) and has the list ready to save.
BeginAdd ==
    \E w \in Writers :
        /\ pending[w] = None
        /\ next_id <= MaxPapers
        /\ \E r \in { begin_add(StoreOf(w, storage, sibling), now,
                                 Flashpaper(next_id, "Test", now)) } :
               /\ Becomes(w, r.s)
               /\ pending' = [ pending EXCEPT ![w] = r.ret ]
        /\ next_id' = next_id + 1
        /\ last' = [ op |-> "begin", id |-> next_id, ret |-> TRUE,
                     w |-> w, change |-> "add" ]
        /\ UNCHANGED << config_manager, backups, backup_calls, config, now, ratings >>

\* The instance w enters update(flashpaper) for a record it holds.
BeginUpdate ==
    \E w \in Writers, id \in Ids :
        /\ pending[w] = None
        /\ \E r \in { begin_update(StoreOf(w, storage, sibling), now,
                                    Flashpaper(id, "Edited", now)) } :
               /\ r.ret # None
               /\ Becomes(w, r.s)
               /\ pending' = [ pending EXCEPT ![w] = r.ret ]
        /\ last' = [ op |-> "begin", id |-> id, ret |-> TRUE,
                     w |-> w, change |-> "update" ]
        /\ UNCHANGED << config_manager, backups, backup_calls, config, now, next_id,
                        ratings >>

\* The instance w enters delete(id) for a record it holds.
BeginDelete ==
    \E w \in Writers, id \in Ids :
        /\ pending[w] = None
        /\ \E r \in { begin_delete(StoreOf(w, storage, sibling), now, id) } :
               /\ r.ret # None
               /\ Becomes(w, r.s)
               /\ pending' = [ pending EXCEPT ![w] = r.ret ]
        /\ last' = [ op |-> "begin", id |-> id, ret |-> TRUE,
                     w |-> w, change |-> "delete" ]
        /\ UNCHANGED << config_manager, backups, backup_calls, config, now, next_id,
                        ratings >>

\* The instance w saves the list it has ready.  prev is the write the
\* other instance finished in the step before, if it did.
FinishWrite ==
    \E w \in Writers :
        /\ pending[w] # None
        /\ Becomes(w, write_back(StoreOf(w, storage, sibling), now,
                                 pending[w][1]))
        /\ pending' = [ pending EXCEPT ![w] = None ]
        /\ last' = [ op |-> "finish", id |-> pending[w][1].id, ret |-> TRUE,
                     w |-> w, change |-> pending[w][1].change,
                     prev |-> IF last.op = "finish" /\ last.w # w
                              THEN Some([ id |-> last.id,
                                          change |-> last.change ])
                              ELSE None ]
        /\ UNCHANGED << config_manager, backups, backup_calls, config, now, next_id,
                        ratings >>

\* The save_all of the instance w fails with an I/O failure, which add and
\* update let through to the caller.  Either open(..., "w") fails and the
\* file is as it was, or the file was opened, which empties it, and the
\* write fails part-way; lines 147-149 are not reached in either case.
\* before is the list the call had loaded when it began.
FailWrite ==
    \E w \in Writers, outcome \in { "open fails", "dump fails" } :
        /\ pending[w] # None
        /\ storage' = IF outcome = "open fails" THEN storage
                      ELSE [ storage EXCEPT !.file = Undecodable,
                                            !.mtime = now ]
        /\ pending' = [ pending EXCEPT ![w] = None ]
        /\ last' = [ op |-> "failed", id |-> pending[w][1].id,
                     ret |-> FALSE, w |-> w,
                     change |-> pending[w][1].change, outcome |-> outcome,
                     before |-> pending[w][1].snapshot ]
        /\ UNCHANGED << config_manager, sibling, backups, backup_calls, config, now, next_id,
                        ratings >>

\* load_all up to the end of the read (lines 97-104): the cache gave
\* nothing, the file was read and the records constructed.  snapshot is
\* the contents read; no records are kept when they do not decode.
BeginLoad ==
    \E c \in { get_cache(storage) } :
        /\ pending[1] = None
        /\ c.ret = None
        /\ storage' = c.s
        /\ pending' = [ pending EXCEPT ![1] =
                          Some([ flashpapers |-> IF WellFormed(c.s.file)
                                                 THEN ParseAll(c.s.file)
                                                 ELSE << >>,
                                 snapshot    |-> c.s.file,
                                 change      |-> "load",
                                 id          |-> 0 ]) ]
        /\ last' = Call("begin_load", 0, TRUE)
        /\ UNCHANGED << config_manager, sibling, backups, backup_calls, config, now, next_id,
                        ratings >>

\* The rest of load_all: the list is cached and the cache stamp is the
\* clock as it reads now (lines 106-110); after a failed read the empty
\* list is returned and nothing is cached.  rewritten tells whether the
\* file is no longer what was read.
FinishLoad ==
    /\ pending[1] # None
    /\ pending[1][1].change = "load"
    /\ storage' = IF WellFormed(pending[1][1].snapshot)
                  THEN [ storage EXCEPT
                           !.cache = Some(pending[1][1].flashpapers),
                           !.cache_timestamp = Some(now),
                           !.id_index = None ]
                  ELSE storage
    /\ pending' = [ pending EXCEPT ![1] = None ]
    /\ last' = [ op |-> "finish_load", id |-> 0,
                 ret |-> pending[1][1].flashpapers,
                 rewritten |-> storage.file # pending[1][1].snapshot ]
    /\ UNCHANGED << config_manager, sibling, backups, backup_calls, config, now, next_id,
                    ratings >>

\* Records in a snapshot handed to a search.
MaxSnapshot == 3

\* The records of the snapshots: categories A, B, and A with B, as in the
\* repository's scenario; titles with one letter of their own.
SnapshotRecords ==
    { [ id |-> 1, paper_title |-> << "X", "a" >>, authors |-> << "u" >>,
        keywords |-> << << "k" >> >>, category |-> << << "A" >> >> ],
      [ id |-> 2, paper_title |-> << "X", "b" >>, authors |-> << "u" >>,
        keywords |-> << >>, category |-> << << "B" >> >> ],
      [ id |-> 3, paper_title |-> << "X", "c" >>, authors |-> << "v" >>,
        keywords |-> << << "k" >>, << "m" >> >>,
        category |-> << << "A" >>, << "B" >> >> ] }

Queries ==
    { << >>, << " " >>, << "c" >>, << " ", "C", " " >>, << "a", " ", "u" >>,
      << "k", " ", "m" >>, << "z" >>, << "X" >> }

\* A filter is None, or a list of values, possibly empty.
CategoryFilters ==
    { None, Some(<< >>), Some(<< << "A" >> >>), Some(<< << "B" >> >>),
      Some(<< << "A" >>, << "B" >> >>), Some(<< << "Z" >> >>) }

KeywordFilters ==
    { None, Some(<< >>), Some(<< << "k" >> >>), Some(<< << "m" >> >>),
      Some(<< << "z" >> >>) }

\* The arguments of one call: a snapshot of n records, a query and the
\* two filters.
SearchArguments(n) ==
    { [ op |-> "arguments", id |-> 0, ret |-> << >>, query |-> query,
        categories |-> categories, keywords |-> keywords,
        flashpapers |-> flashpapers ] :
      flashpapers \in [ 1..n -> SnapshotRecords ],
      query \in Queries, categories \in CategoryFilters,
      keywords \in KeywordFilters }

\* search_utils.search_flashcards(query, categories, keywords, flashpapers)
\* on the snapshot the caller supplies.
Search ==
    /\ last.op = "arguments"
    /\ last' = [ last EXCEPT
                    !.op = "search_flashcards",
                    !.ret = search_flashcards(last.query, last.categories,
                                              last.keywords,
                                              last.flashpapers) ]
    /\ UNCHANGED << config_manager, storage, sibling, pending, backups, backup_calls,
                    config, now, next_id, ratings >>

\* storage.create_backup(backup_dir)
CreateBackup ==
    \E backup_dir \in { None } \cup { Some(d) : d \in BackupDirs } :
        \E r \in { create_backup(storage, backups, now, backup_dir) } :
            /\ storage' = r.s
            /\ backups' = r.bk
            /\ last' = Call("create_backup", 0, r.ret)
            /\ backup_calls < MaxBackupCalls
            /\ backup_calls' = backup_calls + 1
            /\ UNCHANGED << config_manager, sibling, pending, config, now, next_id, ratings >>

\* storage.restore_from_backup(backup_path) for a backup file that exists;
\* before records the live file and the backup file as they were.
RestoreFromBackup ==
    \E backup_path \in DOMAIN backups, outcome \in CopyOutcomes :
        \E r \in { restore_from_backup(storage, backups, now, backup_path,
                                       outcome) } :
            /\ storage' = r.s
            /\ backups' = r.bk
            /\ last' = [ op |-> "restore_from_backup", id |-> 0,
                         ret |-> r.ret, backup_path |-> backup_path,
                         outcome |-> outcome ]
            /\ backup_calls < MaxBackupCalls
            /\ backup_calls' = backup_calls + 1
            /\ UNCHANGED << config_manager, sibling, pending, config, now, next_id, ratings >>

\* A backup file is damaged or replaced outside the program.
DamageBackup ==
    \E backup_path \in DOMAIN backups :
        /\ backups[backup_path].file # Undecodable
        /\ backups' = [ backups EXCEPT ![backup_path].file = Undecodable ]
        /\ last' = Call("damage", 0, backup_path)
        /\ UNCHANGED << config_manager, sibling, pending, storage, backup_calls, config, now, next_id,
                        ratings >>

\* The store and the handler.  The clock advances here while add_flashcard
\* runs, between its two readings.
Next ==
    \/ AddFlashcard(MaxPapers)
    \/ StorageAdd(MaxPapers, { None })
    \/ ProcessReview(MaxReviews)
    \/ GetForReview
    \/ InvalidateCache

Spec == Init /\ [][Next]_vars

\* The scheduler on a single record: one add_flashcard, then any ratings.
SchedulerNext ==
    \/ AddFlashcard(1)
    \/ ProcessReview(MaxRatings)
    \/ Tick

SchedulerSpec == Init /\ [][SchedulerNext]_vars

\* The record store alone, under its callers.
StoreInit == Init /\ config = DefaultSRS

StoreNext ==
    \/ StorageAdd(MaxPapers, { None })
    \/ StorageUpdate
    \/ StorageDelete
    \/ MutateLoaded
    \/ InvalidateCache
    \/ Tick

StoreSpec == StoreInit /\ [][StoreNext]_vars

\* The record store and its backups.
BackupNext ==
    \/ StorageAdd(MaxSaved, { None })
    \/ StorageDelete
    \/ CreateBackup
    \/ RestoreFromBackup
    \/ DamageBackup
    \/ Tick

BackupSpec == StoreInit /\ [][BackupNext]_vars

\* One store instance, the only writer of its file: every mutating path
\* and a reader, within one tick of the clock.
ProcessNext ==
    \/ StorageAdd(MaxSaved, { None })
    \/ StorageUpdate
    \/ StorageDelete
    \/ LoadById
    \/ CreateBackup
    \/ RestoreFromBackup

ProcessSpec == StoreInit /\ [][ProcessNext]_vars

\* One store instance reading a file that another process rewrites.
SharedFileNext ==
    \/ StorageAdd(MaxSaved, { None })
    \/ LoadAll
    \/ LoadById
    \/ InvalidateCache
    \/ RewriteFile
    \/ Tick

SharedFileSpec == StoreInit /\ [][SharedFileNext]_vars

\* Two store instances writing the same file without a lock, within one
\* tick of the clock.
WritersNext ==
    \/ BeginAdd
    \/ BeginUpdate
    \/ BeginDelete
    \/ FinishWrite

WritersSpec == StoreInit /\ [][WritersNext]_vars

\* Writes that succeed or fail at the save.
FailingNext ==
    \/ BeginAdd
    \/ BeginUpdate
    \/ BeginDelete
    \/ FinishWrite
    \/ FailWrite

FailingSpec == StoreInit /\ [][FailingNext]_vars

\* A load that another writer of the file may overtake.
RacingNext ==
    \/ BeginLoad
    \/ FinishLoad
    \/ LoadAll
    \/ RewriteFile
    \/ InvalidateCache
    \/ Tick

RacingSpec == StoreInit /\ [][RacingNext]_vars

\* Searches over snapshots.
SearchInit ==
    /\ storage = NewStorage
    /\ backups = NoFiles
    /\ backup_calls = 0
    /\ sibling = NoCache
    /\ pending = [ w \in Writers |-> None ]
    /\ config = DefaultSRS
    /\ config_manager = [ srs_parameters |-> config, held |-> TRUE ]
    /\ now = 0
    /\ next_id = 1
    /\ ratings = [ id \in Ids |-> << >> ]
    /\ \E n \in 0..MaxSnapshot : last \in SearchArguments(n)

SearchSpec == SearchInit /\ [][Search]_vars

\* A store that is filled and queried.  A query that builds its result
\* from the list of load_all without changing it (search_flashcards,
\* search_by_title, search_by_author, filter_by_category,
\* filter_by_keyword, get_all_tags, get_all_categories, get_analytics)
\* changes the store as LoadAll does.
QueryNext ==
    \/ StorageAdd(MaxPapers, { None })
    \/ LoadAll
    \/ GetRecentPapers
    \/ StorageUpdate
    \/ LoadById
    \/ InvalidateCache
    \/ Tick

QuerySpec == StoreInit /\ [][QueryNext]_vars

\* The handler called with values that the models accept or refuse.
ValidationNext ==
    \/ AddFlashcardWith
    \/ ReviewWith
    \/ InvalidateCache
    \/ Tick

ValidationSpec == StoreInit /\ [][ValidationNext]_vars

\* srs_parameters is a plain dict read from the configuration file and no
\* value in it is validated: besides the default, a file with an initial
\* ease factor of 0.5 and a file with a negative maximum interval.
Tunables ==
    { DefaultSRS,
      [ DefaultSRS EXCEPT !.initial_ease_factor = F0_5 ],
      [ DefaultSRS EXCEPT !.maximum_interval_days = -1 ] }

TunablesInit ==
    /\ storage = NewStorage
    /\ backups = NoFiles
    /\ backup_calls = 0
    /\ sibling = NoCache
    /\ pending = [ w \in Writers |-> None ]
    /\ config \in Tunables
    /\ config_manager = [ srs_parameters |-> config, held |-> TRUE ]
    /\ now = 0
    /\ next_id = 1
    /\ ratings = [ id \in Ids |-> << >> ]
    /\ last = Call("init", 0, TRUE)

\* The handler under any configuration file, and the store read again
\* after the pages dropped its cache.
TunablesNext ==
    \/ AddFlashcard(MaxPapers)
    \/ ProcessReview(MaxReviews)
    \/ InvalidateCache
    \/ LoadAll

TunablesSpec == TunablesInit /\ [][TunablesNext]_vars

\* A store whose callers choose the identifiers of the records they add.
DuplicateNext ==
    \/ StorageAdd(MaxPapers, { None })
    \/ AddAgain
    \/ StorageUpdate
    \/ StorageDelete

DuplicateSpec == StoreInit /\ [][DuplicateNext]_vars

\* Backups taken of a store that is being filled and read.
SnapshotNext ==
    \/ StorageAdd(MaxSaved, { None })
    \/ LoadById
    \/ InvalidateCache
    \/ CreateBackup
    \/ Tick

SnapshotSpec == StoreInit /\ [][SnapshotNext]_vars

\* The review dates a caller may give a Flashpaper it constructs.
AnyDate == { None } \cup { Some(d) : d \in 0..(MaxClock + 1) }

\* The review queue over collections of records with any review dates.
QueueNext ==
    \/ StorageAdd(MaxQueue, AnyDate)
    \/ GetForReview
    \/ Tick

QueueSpec == Init /\ [][QueueNext]_vars

\* The review queue and the analytics over the same collections.
DueNext ==
    \/ StorageAdd(MaxQueue, AnyDate)
    \/ GetForReview
    \/ GetAnalytics
    \/ Tick

DueSpec == StoreInit /\ [][DueNext]_vars

\* The handler while the settings are changed through its manager.
ConfigNext ==
    \/ AddFlashcard(MaxPapers)
    \/ ProcessReview(MaxReviews)
    \/ ConfigUpdate
    \/ ResetToDefaults

ConfigSpec == Init /\ [][ConfigNext]_vars

(***************************************************************************)
(* Properties.                                                             *)
(***************************************************************************)
\* The records the backing file holds, as load_all would construct them.
StoredRecords == ParseAll(storage.file)

\* The records of the cached list, when there is one.
CachedRecords == IF storage.cache = None THEN << >> ELSE storage.cache[1]

\* The record of the list with the identifier.
RecordOf(flashpapers, id) == flashpapers[FirstWithId(flashpapers, id)]

HasRecord(flashpapers, id) == FirstWithId(flashpapers, id) # 0

AllRated(rs, difficulty) == \A k \in 1..Len(rs) : rs[k] = difficulty

\* The last call was a successful process_review of the record id.
ReviewedNow(id) ==
    last.op = "process_review" /\ last.ret /\ last.id = id

\* C1: whatever ratings process_review has applied to a stored record, its
\* ease_factor is never below 1.3, in the file and in the cached list.
EaseFactorFloor ==
    /\ \A i \in 1..Len(StoredRecords) :
           ~FLess(StoredRecords[i].ease_factor, F1_3)
    /\ \A i \in 1..Len(CachedRecords) :
           ~FLess(CachedRecords[i].ease_factor, F1_3)

\* A record under the default configuration after three "hard" ratings:
\* 2.5 * 0.8 * 0.8 * 0.8 = 1.28, which the floor raises to 1.3.
EaseFactorFloorReached ==
    /\ config = DefaultSRS
    /\ ratings[1] = << "hard", "hard", "hard" >>
    /\ HasRecord(StoredRecords, 1)
    /\ RecordOf(StoredRecords, 1).ease_factor = F1_3
    /\ RecordOf(StoredRecords, 1).review_count = 3

F3_25 == Dbl(1664, 0, 0, 0, -51)             \* 3.25    0x1.a000000000000p+1

F4_225 == Dbl(1081, 9830, 6553, 9830, -50)   \* 4.225   0x1.0e66666666666p+2

F5_4925 == Dbl(1406, 1310, 11796, 7864, -50) \* 5.4925  0x1.5f851eb851eb8p+2

\* 3.25 * 1.3 in binary64: 4.2250000000000005, 0x1.0e66666666667p+2.
F3_25x1_3 == Dbl(1081, 9830, 6553, 9831, -50)

\* 3.25 * 1.3 * 1.3 in binary64: 5.492500000000001, 0x1.5f851eb851eb9p+2.
F3_25x1_3x1_3 == Dbl(1406, 1310, 11796, 7865, -50)

\* The record 1 was added by add_flashcard under the default configuration
\* and rated "easy" n times, and holds these scheduling values.
AfterEasy(n, ease_factor, interval_days) ==
    (config = DefaultSRS /\ Len(ratings[1]) = n /\ AllRated(ratings[1], "easy"))
    => /\ HasRecord(StoredRecords, 1)
       /\ RecordOf(StoredRecords, 1).ease_factor = ease_factor
       /\ RecordOf(StoredRecords, 1).interval_days = interval_days
       /\ RecordOf(StoredRecords, 1).review_count = n

\* C2 as stated: three "easy" reviews of a fresh record under the default
\* configuration give (3.25, 1), (4.225, 4), (5.4925, 21), review_count
\* 1, 2, 3, with the ease factors the float literals 4.225 and 5.4925.
ThreeEasyLiteral ==
    /\ AfterEasy(1, F3_25, 1)
    /\ AfterEasy(2, F4_225, 4)
    /\ AfterEasy(3, F5_4925, 21)

\* C2: three "easy" reviews of a fresh record under the default
\* configuration give the intervals 1, 4, 21 and review_count 1, 2, 3; the
\* ease factors are the binary64 products 3.25, 4.2250000000000005 and
\* 5.492500000000001.
ThreeEasy ==
    /\ AfterEasy(1, F3_25, 1)
    /\ AfterEasy(2, F3_25x1_3, 4)
    /\ AfterEasy(3, F3_25x1_3x1_3, 21)

ThreeEasyDone ==
    /\ config = DefaultSRS
    /\ ratings[1] = << "easy", "easy", "easy" >>
    /\ HasRecord(StoredRecords, 1)
    /\ RecordOf(StoredRecords, 1).interval_days = 21

\* C3: each "easy" review of a record rated only "easy" since add_flashcard
\* leaves interval_days not smaller than before and not greater than
\* maximum_interval_days.
EasyIntervalMonotone ==
    [][ \A id \in Ids :
          (ReviewedNow(id)' /\ AllRated(ratings'[id], "easy"))
          => /\ RecordOf(StoredRecords', id).interval_days
                  >= RecordOf(StoredRecords, id).interval_days
             /\ RecordOf(StoredRecords', id).interval_days
                  <= config.maximum_interval_days ]_vars

\* A second "easy" review whose product, 2 * 4.5 = 9, the maximum of 5
\* days cuts short.
EasyIntervalCapped ==
    /\ config = NarrowSRS
    /\ ReviewedNow(1)
    /\ ratings[1] = << "easy", "easy" >>
    /\ RecordOf(StoredRecords, 1).interval_days
           = config.maximum_interval_days

\* C4: a successful review sets interval_days to minimum_interval_days when
\* it was 0 and otherwise to int(interval_days * ease_factor) with the ease
\* factor the rating has just adjusted, clamped from below by
\* minimum_interval_days and then from above by maximum_interval_days, so
\* that it lies between the two.
IntervalRule ==
    [][ \A id \in Ids :
          ReviewedNow(id)'
          => \E old \in { RecordOf(StoredRecords, id) },
                new \in { RecordOf(StoredRecords', id) } :
             \E raw \in { IF old.interval_days = 0
                          THEN config.minimum_interval_days
                          ELSE FTrunc(FMul(FromInt(old.interval_days),
                                           new.ease_factor)) } :
                /\ new.interval_days
                     = IntMin(config.maximum_interval_days,
                              IntMax(config.minimum_interval_days, raw))
                /\ config.minimum_interval_days <= new.interval_days
                /\ new.interval_days <= config.maximum_interval_days ]_vars

\* A review whose interval is the truncated product itself, strictly
\* between the two limits: int(1 * 4.2250000000000005) = 4.
IntervalFromProduct ==
    /\ config = DefaultSRS
    /\ ReviewedNow(1)
    /\ ratings[1] = << "easy", "easy" >>
    /\ RecordOf(StoredRecords, 1).interval_days = 4

\* C5: a successful process_review stores, for the record reviewed,
\* last_review_date = the response's timestamp, next_review_date = the
\* timestamp plus interval_days days (the interval this review stored) and
\* review_count one more than before; the record's id, content and
\* added_date, every other record, and the order of the collection stay as
\* they were, in the file and in the cached list.
ReviewCommit ==
    [][ \A id \in Ids :
          ReviewedNow(id)'
          => \E old \in { RecordOf(StoredRecords, id) },
                new \in { RecordOf(StoredRecords', id) },
                pos \in { FirstWithId(StoredRecords, id) } :
                /\ new.last_review_date = Some(last'.response.timestamp)
                /\ new.next_review_date
                     = Some(last'.response.timestamp
                            + timedelta(new.interval_days))
                /\ new.review_count = old.review_count + 1
                /\ new.id = old.id
                /\ new.paper_title = old.paper_title
                /\ new.added_date = old.added_date
                /\ Len(StoredRecords') = Len(StoredRecords)
                /\ \A i \in 1..Len(StoredRecords) :
                       i # pos => StoredRecords'[i] = StoredRecords[i]
                /\ CachedRecords' = StoredRecords' ]_vars

\* A review of the second of two records, with a timestamp earlier than
\* the clock at the call and an interval that changed.
ReviewCommitted ==
    /\ ReviewedNow(2)
    /\ Len(StoredRecords) = 2
    /\ last.response.timestamp < now
    /\ RecordOf(StoredRecords, 2).interval_days > 0
    /\ RecordOf(StoredRecords, 2).last_review_date
           = Some(last.response.timestamp)

\* The clock reading at which the record was last scheduled: its last
\* review, or for a record add_flashcard has just created the reading its
\* next_review_date was computed from.
ScheduledAt(fp) ==
    IF fp.last_review_date # None THEN fp.last_review_date[1]
    ELSE fp.next_review_date[1] - timedelta(config.minimum_interval_days)

\* The ease factor of the record id changed with the rating as C6 says.
EaseByRating(old, new, difficulty) ==
    new.ease_factor =
        IF difficulty = "medium" THEN old.ease_factor
        ELSE FMax(F1_3, FMul(old.ease_factor,
                             IF difficulty = "easy" THEN config.easy_bonus
                             ELSE config.hard_penalty))

\* C6 as stated: a "medium" review leaves ease_factor unchanged, adds 1 to
\* review_count and makes next_review_date later than it was; "easy"
\* multiplies ease_factor by easy_bonus and "hard" by hard_penalty, before
\* the floor of 1.3.
MediumMovesForward ==
    [][ \A id \in Ids :
          ReviewedNow(id)'
          => \E old \in { RecordOf(StoredRecords, id) },
                new \in { RecordOf(StoredRecords', id) } :
                /\ EaseByRating(old, new, last'.response.difficulty)
                /\ last'.response.difficulty = "medium"
                   => /\ new.review_count = old.review_count + 1
                      /\ new.next_review_date[1] > old.next_review_date[1]
        ]_vars

\* C6: a "medium" review leaves ease_factor unchanged, adds 1 to
\* review_count and sets next_review_date to the response's timestamp plus
\* interval_days days, which is later than it was whenever the timestamp is
\* later than the reading the record was last scheduled at; "easy"
\* multiplies ease_factor by easy_bonus and "hard" by hard_penalty, before
\* the floor of 1.3.
MediumReschedules ==
    [][ \A id \in Ids :
          ReviewedNow(id)'
          => \E old \in { RecordOf(StoredRecords, id) },
                new \in { RecordOf(StoredRecords', id) },
                timestamp \in { last'.response.timestamp } :
                /\ EaseByRating(old, new, last'.response.difficulty)
                /\ last'.response.difficulty = "medium"
                   => /\ new.review_count = old.review_count + 1
                      /\ new.next_review_date
                           = Some(timestamp + timedelta(new.interval_days))
                      /\ timestamp > ScheduledAt(old)
                         => new.next_review_date[1]
                                > old.next_review_date[1]
        ]_vars

\* A "medium" review, later than the record's creation, that left the
\* configured initial ease factor and moved the review date forward.
MediumRescheduled ==
    /\ ReviewedNow(1)
    /\ last.response.difficulty = "medium"
    /\ ratings[1] = << "medium" >>
    /\ RecordOf(StoredRecords, 1).ease_factor = config.initial_ease_factor
    /\ RecordOf(StoredRecords, 1).review_count = 1
    /\ last.response.timestamp > RecordOf(StoredRecords, 1).added_date

\* C7: process_review of an identifier the store does not hold returns
\* false, and a process_review that returns false leaves the backing file,
\* its modification time and so every stored record as they were.
AbsentReviewNoEffect ==
    [][ last'.op = "process_review"
        => /\ ~HasRecord(StoredRecords, last'.id) => ~last'.ret
           /\ ~last'.ret => /\ ~HasRecord(StoredRecords, last'.id)
                            /\ storage'.file = storage.file
                            /\ storage'.mtime = storage.mtime
                            /\ StoredRecords' = StoredRecords ]_vars

\* A review of an identifier the store does not hold, while it holds
\* another record.
AbsentReviewRefused ==
    /\ last.op = "process_review"
    /\ ~last.ret
    /\ Len(StoredRecords) >= 1
    /\ ~HasRecord(StoredRecords, last.id)

\* C8: right after add_flashcard the stored record has the configured
\* initial_ease_factor, interval_days 0, review_count 0, no
\* last_review_date, and next_review_date = the clock reading taken when
\* the record is scheduled (not before its added_date) plus
\* minimum_interval_days days.
AddedRecordInitial ==
    last.op = "add_flashcard"
    => /\ HasRecord(StoredRecords, last.id)
       /\ \E fp \in { RecordOf(StoredRecords, last.id) } :
            /\ fp.ease_factor = config.initial_ease_factor
            /\ fp.interval_days = 0
            /\ fp.review_count = 0
            /\ fp.last_review_date = None
            /\ fp.next_review_date
                 = Some(now + timedelta(config.minimum_interval_days))
            /\ fp.added_date <= now
       /\ last.ret = last.id

\* A record added under the configuration whose initial ease factor is 2.0
\* to a store that already held one.
AddedSecondRecord ==
    /\ last.op = "add_flashcard"
    /\ config = NarrowSRS
    /\ Len(StoredRecords) = 2
    /\ RecordOf(StoredRecords, last.id).ease_factor = F2_0

\* C9: while every record of the store is one add_flashcard has just
\* created (none reviewed, none added otherwise),
\* get_flashcards_for_review() returns all n of them and
\* get_flashcards_for_review(limit = k) with 1 <= k <= n returns exactly k.
FreshCardsDue ==
    ( /\ last.op = "get_flashcards_for_review"
      /\ TotalReviews = 0
      /\ \A i \in 1..Len(StoredRecords) :
             StoredRecords[i].next_review_date # None )
    => /\ last.limit = None => Len(last.ret) >= Len(StoredRecords)
       /\ \A k \in 1..Len(StoredRecords) :
             last.limit = Some(k) => Len(last.ret) = k

\* The review date is absent or not after t.
DueAt(fp, t) ==
    fp.next_review_date = None \/ fp.next_review_date[1] <= t

\* C10: get_flashcards_for_review() returns each stored record that is due
\* (next_review_date absent or <= now) exactly once and no other record,
\* the records without a date first and then ascending by date.
DueSetSorted ==
    (last.op = "get_flashcards_for_review" /\ last.limit = None)
    => /\ \A i \in 1..Len(last.ret) :
            /\ DueAt(last.ret[i], now)
            /\ \E j \in 1..Len(StoredRecords) : StoredRecords[j] = last.ret[i]
       /\ \A j \in 1..Len(StoredRecords) :
            DueAt(StoredRecords[j], now)
            => Cardinality({ i \in 1..Len(last.ret) :
                               last.ret[i] = StoredRecords[j] }) = 1
       /\ \A i \in 1..Len(last.ret), j \in 1..Len(last.ret) :
            i < j => \/ last.ret[i].next_review_date = None
                     \/ /\ last.ret[j].next_review_date # None
                        /\ last.ret[i].next_review_date[1]
                             <= last.ret[j].next_review_date[1]

\* A result that leaves out a record with a future date and returns a
\* record without a date before an earlier-stored record due exactly now.
DueSetReordered ==
    /\ last.op = "get_flashcards_for_review"
    /\ last.limit = None
    /\ Len(last.ret) = 2
    /\ Len(StoredRecords) = 3
    /\ last.ret[1].next_review_date = None
    /\ last.ret[2].next_review_date = Some(now)
    /\ last.ret[1].id > last.ret[2].id

\* C11 as stated: with a limit n >= 0, get_flashcards_for_review(n)
\* returns the first min(n, number due) records of the list it returns
\* without a limit, so never more than n records.
LimitTruncates ==
    (last.op = "get_flashcards_for_review" /\ last.limit # None)
    => \E n \in { last.limit[1] },
          all \in { get_flashcards_for_review(storage, now, None).ret } :
          /\ Len(last.ret) <= n
          /\ last.ret = SubSeq(all, 1, IF n < Len(all) THEN n ELSE Len(all))

\* The collection a load returns: the cached list while the cache is
\* valid, the records decoded from the file otherwise.
Collection == load_all(storage, now).ret

\* C12: delete of a stored identifier returns true and leaves the other
\* records, in their order, one record fewer, in the collection and in the
\* file; delete of an identifier that is not stored, as when the same
\* delete is repeated, returns false and leaves collection and file as
\* they were.
DeleteOnce ==
    [][ last'.op = "delete"
        => \E id \in { last'.id }, before \in { Collection },
              after \in { Collection' } :
              /\ HasRecord(before, id)
                 => /\ last'.ret
                    /\ Len(after) = Len(before) - 1
                    /\ ~HasRecord(after, id)
                    /\ after = SelectSeq(before, LAMBDA fp : fp.id # id)
                    /\ StoredRecords' = after
              /\ ~HasRecord(before, id)
                 => /\ ~last'.ret
                    /\ after = before
                    /\ storage'.file = storage.file
                    /\ storage'.mtime = storage.mtime
              /\ last'.again => ~last'.ret ]_vars

\* The same delete twice in a row, the second refused, another record left.
DeletedTwice ==
    /\ last.op = "delete"
    /\ last.again
    /\ ~last.ret
    /\ Len(StoredRecords) >= 1

\* C13: update with an identifier the store does not hold returns false
\* and leaves the file, its modification time and the collection a load
\* returns as they were.
UpdateAbsentNoEffect ==
    [][ (last'.op = "update" /\ ~HasRecord(Collection, last'.id))
        => /\ ~last'.ret
           /\ storage'.file = storage.file
           /\ storage'.mtime = storage.mtime
           /\ Collection' = Collection ]_vars

UpdateRefused ==
    /\ last.op = "update"
    /\ ~last.ret
    /\ Len(StoredRecords) >= 1
    /\ ~HasRecord(StoredRecords, last.id)

\* C14: update with a stored identifier returns true; the record supplied
\* takes the place of the stored one with all its fields, load_by_id
\* returns it, from the cache and from the file, and the number of records,
\* every other record and every position stay as they were.
UpdateReplaces ==
    [][ (last'.op = "update" /\ HasRecord(Collection, last'.id))
        => \E flashpaper \in { last'.flashpaper },
              before \in { Collection }, after \in { Collection' },
              found \in { load_by_id(storage', now', last'.id) },
              reread \in { load_by_id(invalidate_cache(storage'), now',
                                      last'.id) } :
              /\ last'.ret
              /\ found.ret # None
              /\ found.s.cache[1][found.ret[1]] = flashpaper
              /\ reread.ret # None
              /\ reread.s.cache[1][reread.ret[1]] = flashpaper
              /\ Len(after) = Len(before)
              /\ \A i \in 1..Len(before) :
                    after[i] = IF before[i].id = flashpaper.id
                               THEN flashpaper ELSE before[i] ]_vars

\* The second of two records replaced by a record that differs from it in
\* title and added_date.
UpdatedSecond ==
    /\ last.op = "update"
    /\ last.ret
    /\ Len(StoredRecords) = 2
    /\ StoredRecords[2] = last.flashpaper
    /\ last.flashpaper.paper_title = "Edited"
    /\ StoredRecords[1].added_date < last.flashpaper.added_date

\* C15 as stated: a caller that changes a field of a record object it got
\* from load_by_id, and does not call update, changes neither the
\* collection a later load returns nor the records of the file that a
\* later add, update or delete of another record writes.
LoadedRecordsAreCopies ==
    [][ /\ last'.op = "mutate" => Collection' = Collection
        /\ last'.op \in { "add", "update", "delete" }
           => \A i \in 1..Len(StoredRecords) :
                 StoredRecords[i].id # last'.id
                 => \E j \in 1..Len(StoredRecords') :
                       StoredRecords'[j] = StoredRecords[i] ]_vars

\* C16: add returns the identifier of the record, the collection becomes
\* the earlier records in their order followed by the record, the file is
\* rewritten to hold that whole collection, load_by_id returns the record
\* and get_count is one more than before.
AddAppends ==
    [][ last'.op = "add"
        => \E before \in { Collection }, after \in { Collection' },
              found \in { load_by_id(storage', now', last'.id) } :
              /\ last'.ret = last'.id
              /\ Len(after) = Len(before) + 1
              /\ SubSeq(after, 1, Len(before)) = before
              /\ after[Len(after)].id = last'.id
              /\ after[Len(after)].added_date = now'
              /\ StoredRecords' = after
              /\ found.ret # None
              /\ found.s.cache[1][found.ret[1]] = after[Len(after)]
              /\ get_count(storage', now').ret
                   = get_count(storage, now).ret + 1 ]_vars

\* A record added after another one whose object a caller had changed.
AddedAfterEdited ==
    /\ last.op = "add"
    /\ Len(StoredRecords) = 2
    /\ StoredRecords[1].paper_title = "Edited"
    /\ StoredRecords[2].id = last.id

\* The backup file a restore_from_backup call was handed, as it was when
\* the call began, and the records it holds.
RestoredPath == last'.backup_path

BackedUpRecords == ParseAll(backups[RestoredPath].file)

\* C17 as stated: restore_from_backup of a backup file that decodes, with
\* the copy completing, returns true and brings the collection back to the
\* records of that backup: get_count is their number and load_by_id finds
\* each of their identifiers, whichever directory the backup lies in and
\* whenever the call is made.
RestoreReturnsBackup ==
    [][ ( /\ last'.op = "restore_from_backup"
          /\ last'.outcome = "ok"
          /\ WellFormed(backups[RestoredPath].file) )
        => \E saved \in { BackedUpRecords } :
              /\ last'.ret
              /\ get_count(storage', now').ret = Len(saved)
              /\ \A i \in 1..Len(saved) :
                    load_by_id(storage', now', saved[i].id).ret # None
       ]_vars

\* C18 as stated: restore_from_backup of a backup file that does not
\* decode, or with the copy failing, returns false, and the live file and
\* the collection a load returns are as they were before the call.
FailedRestoreLeavesLiveFile ==
    [][ last'.op = "restore_from_backup"
        => /\ ( \/ ~WellFormed(backups[RestoredPath].file)
                \/ last'.outcome # "ok" ) => ~last'.ret
           /\ ~last'.ret
              => /\ storage'.file = storage.file
                 /\ Collection' = Collection ]_vars

\* C19 as stated: after a restore_from_backup that returns true, the
\* safety backup holds the live file as it was before the call, the cache
\* is dropped, and load_all, load_by_id and get_count give the records of
\* the backup that was handed in.
RestoreOrder ==
    [][ (last'.op = "restore_from_backup" /\ last'.ret)
        => \E saved \in { BackedUpRecords },
              safety \in { BackupPath(DefaultBackupDir, now) } :
              /\ safety \in DOMAIN backups'
              /\ backups'[safety].file = storage.file
              /\ storage'.cache = None
              /\ storage'.id_index = None
              /\ Collection' = saved
              /\ get_count(storage', now').ret = Len(saved)
              /\ \A i \in 1..Len(saved) :
                    \E r \in { load_by_id(storage', now', saved[i].id) } :
                       /\ r.ret # None
                       /\ r.s.cache[1][r.ret[1]] = saved[i] ]_vars

\* C20: create_backup writes a backup file with the contents and the
\* modification time of the live file, and leaves the live file, the
\* cached list, the cache stamp and the identifier index as they were.
BackupCopiesLiveFile ==
    [][ last'.op = "create_backup"
        => /\ last'.ret \in DOMAIN backups'
           /\ backups'[last'.ret].file = storage.file
           /\ backups'[last'.ret].mtime = storage.mtime
           /\ storage'.file = storage.file
           /\ storage'.mtime = storage.mtime
           /\ storage'.cache = storage.cache
           /\ storage'.cache_timestamp = storage.cache_timestamp
           /\ storage'.id_index = storage.id_index ]_vars

\* A backup made of a store that holds a record, with the list cached and
\* the identifier index built.
BackupMadeWithCache ==
    /\ last.op = "create_backup"
    /\ Len(StoredRecords) >= 1
    /\ backups[last.ret].file = storage.file
    /\ storage.cache # None
    /\ storage.id_index # None

\* C21: with one store instance as the only writer, whenever the backing
\* file decodes, load_all returns exactly the records of the file,
\* get_count their number, and load_by_id the record of the file with the
\* identifier, or nothing when the file holds none.
ReadersSeeLastWrite ==
    WellFormed(storage.file)
    => /\ Collection = StoredRecords
       /\ get_count(storage, now).ret = Len(StoredRecords)
       /\ \A id \in Ids :
             \E r \in { load_by_id(storage, now, id) } :
                IF HasRecord(StoredRecords, id)
                THEN /\ r.ret # None
                     /\ r.s.cache[1][r.ret[1]] = RecordOf(StoredRecords, id)
                ELSE r.ret = None

\* A restore that put other contents in the live file than the ones the
\* store had cached: the safety backup differs from the live file.
RestoredOverCache ==
    /\ last.op = "restore_from_backup"
    /\ last.ret
    /\ backups[BackupPath(DefaultBackupDir, now)].file # storage.file
    /\ Len(StoredRecords) >= 1

\* C22 as stated: a load_all that follows a rewrite of the file by another
\* writer which advanced the modification time returns the records of the
\* new contents; a load_all that follows a load_all, the file not having
\* been rewritten in between, returns the cached list and reads nothing.
ReloadAfterRewrite ==
    [][ last'.op = "load_all"
        => /\ ( /\ last.op = "rewrite"
                /\ last.advanced
                /\ WellFormed(storage.file) )
              => last'.ret = StoredRecords
           /\ (last.op = "load_all" /\ storage.cache # None)
              => /\ last'.ret = storage.cache[1]
                 /\ storage' = storage ]_vars

\* C23 as stated: in every state, for every identifier, load_by_id returns
\* the record that load_all holds under the identifier, and nothing when
\* load_all holds no such record.
LoadByIdMatchesLoadAll ==
    \A id \in Ids :
        \E r \in { load_by_id(storage, now, id) }, all \in { Collection } :
            IF HasRecord(all, id)
            THEN /\ r.ret # None
                 /\ r.s.cache[1][r.ret[1]] = RecordOf(all, id)
            ELSE r.ret = None

\* C24 as stated: load_all that reads a backing file with an entry that
\* fails validation ends with a failure raised to its caller, and returns
\* no collection.
LoadFailureSurfaces ==
    [][ ( /\ last'.op = "load_all"
          /\ get_cache(storage).ret = None
          /\ ~WellFormed(storage.file) )
        => last'.raised ]_vars

\* C25: when one instance saves right after the other did, both having
\* loaded their lists before either save, the file holds the list the
\* second one loaded with the second one's change and nothing else: a
\* record the first one added is not in the file, a record the first one
\* deleted is back, and a record the first one updated is as the second
\* one had loaded it.
LastWriterWins ==
    [][ (last'.op = "finish" /\ last'.prev # None)
        => \E p \in { pending[last'.w][1] }, first \in { last'.prev[1] } :
              /\ storage'.file = DumpAll(p.flashpapers)
              /\ p.change = "add"
                 => /\ SubSeq(p.flashpapers, 1, Len(p.snapshot)) = p.snapshot
                    /\ Len(p.flashpapers) = Len(p.snapshot) + 1
              /\ p.change = "delete"
                 => p.flashpapers
                      = SelectSeq(p.snapshot, LAMBDA fp : fp.id # p.id)
              /\ p.change = "update"
                 => /\ Len(p.flashpapers) = Len(p.snapshot)
                    /\ \A i \in 1..Len(p.snapshot) :
                          p.snapshot[i].id # p.id
                          => p.flashpapers[i] = p.snapshot[i]
              /\ first.change = "add"
                 => ~HasRecord(StoredRecords', first.id)
              /\ ( /\ first.change = "delete"
                   /\ HasRecord(p.snapshot, first.id)
                   /\ ~(p.change = "delete" /\ p.id = first.id) )
                 => HasRecord(StoredRecords', first.id)
              /\ ( /\ first.change = "update"
                   /\ HasRecord(p.snapshot, first.id)
                   /\ p.id # first.id )
                 => RecordOf(StoredRecords', first.id)
                      = RecordOf(p.snapshot, first.id) ]_vars

\* Both instances added a record, and the file holds only the record of
\* the one that saved second.
FirstAddLost ==
    /\ last.op = "finish"
    /\ last.change = "add"
    /\ last.prev # None
    /\ last.prev[1].change = "add"
    /\ Len(StoredRecords) = 1
    /\ StoredRecords[1].id = last.id
    /\ pending = [ w \in Writers |-> None ]

Shared(values, others) ==
    { values[i] : i \in 1..Len(values) }
    \cap { others[i] : i \in 1..Len(others) }

\* The text predicate: the query, lower-cased and trimmed, is empty or
\* occurs in the lower-cased text fields joined by blanks.
TextMatches(query, fp) ==
    \/ strip(lower(query)) = << >>
    \/ Contains(strip(lower(query)), searchable_text(fp))

\* C27 as stated: a search returns, in snapshot order, exactly the records
\* for which the category filter is absent or shares a value with the
\* record's categories, the keyword filter is absent or shares a value
\* with the record's keywords, and the text predicate holds.
SearchConjunctiveStrict ==
    last.op = "search_flashcards"
    => last.ret
         = SelectSeq(last.flashpapers,
                     LAMBDA fp :
                        /\ \/ last.categories = None
                           \/ Shared(last.categories[1], fp.category) # { }
                        /\ \/ last.keywords = None
                           \/ Shared(last.keywords[1], fp.keywords) # { }
                        /\ TextMatches(last.query, fp))

\* C27: a search returns, in snapshot order, exactly the records for which
\* the category filter is absent or empty or shares a value with the
\* record's categories, the keyword filter is absent or empty or shares a
\* value with the record's keywords, and the text predicate holds.
SearchConjunctive ==
    last.op = "search_flashcards"
    => last.ret
         = SelectSeq(last.flashpapers,
                     LAMBDA fp :
                        /\ \/ last.categories \in { None, Some(<< >>) }
                           \/ Shared(last.categories[1], fp.category) # { }
                        /\ \/ last.keywords \in { None, Some(<< >>) }
                           \/ Shared(last.keywords[1], fp.keywords) # { }
                        /\ TextMatches(last.query, fp))

\* Records with the categories A, B, and A with B; the filter A and a
\* query found in the title of the third only give the third.
SearchScenario ==
    /\ last.op = "search_flashcards"
    /\ Len(last.flashpapers) = 3
    /\ \A i \in 1..3 : last.flashpapers[i].id = i
    /\ last.categories = Some(<< << "A" >> >>)
    /\ last.keywords = None
    /\ last.query = << " ", "C", " " >>
    /\ Len(last.ret) = 1
    /\ last.ret[1].id = 3

\* C28 as stated: a query leaves the contents and the order of the cached
\* collection as they were, and with them what a later write puts in the
\* backing file.
QueriesDoNotMutate ==
    [][last'.op \in { "load_all", "get_recent_papers" }
         => load_all(storage', now').ret = load_all(storage, now).ret]_vars

\* The records of the backing file are in the order they were added in:
\* what the writes put there had no query been made.
FileInAddOrder ==
    \A i, j \in 1..Len(storage.file) :
        i < j => storage.file[i].id < storage.file[j].id

\* C29: a call in which the construction of the record or of the review
\* event raises leaves the backing file and the cached collection as they
\* were.
RaisedBeforePersistence ==
    [][(last'.op \in { "add_flashcard", "process_review" } /\ last'.raised)
         => storage' = storage]_vars

\* An add_flashcard refused at construction by a store that holds a
\* record in its file and in its cache.
RefusedWithRecords ==
    /\ last.op = "add_flashcard"
    /\ last.raised
    /\ storage.file # << >>
    /\ storage.cache # None

\* C30 as stated: under every value of the SRS tunables each record that
\* add_flashcard or process_review wrote to the backing file has
\* review_count >= 0, ease_factor >= 1.3 and interval_days >= 0, so that
\* a later load_all decodes the file.
WrittenRecordsInBounds == WellFormed(storage.file)

\* A backing file that holds a record while load_all, finding no cache,
\* returns the empty list.
WrittenFileNotDecoded ==
    /\ last.op = "load_all"
    /\ ~last.cached
    /\ storage.file # << >>
    /\ last.ret = << >>

\* C31 as stated: every entry the backing file held before an add is in
\* the file after it, whatever the file held.
AddKeepsEntries ==
    [][last'.op = "add"
         => \A i \in 1..Len(storage.file) :
               \E j \in 1..Len(storage'.file) :
                   storage'.file[j] = storage.file[i]]_vars

\* C32 as stated: the identifiers of the stored collection are pairwise
\* distinct, also after add of a record whose identifier is stored.
IdentifiersDistinct ==
    \A i, j \in 1..Len(storage.file) :
        storage.file[i].id = storage.file[j].id => i = j

\* A successful delete removes exactly one record.
DeleteRemovesOne ==
    [][(last'.op = "delete" /\ last'.ret)
         => Len(storage'.file) = Len(storage.file) - 1]_vars

\* C33 as stated: create_backup, also as the safety backup taken inside
\* restore_from_backup, leaves every backup file that exists as it is; the
\* backup handed to a restore has the same contents after it as before.
BackupsNeverOverwritten ==
    [][last'.op \in { "create_backup", "restore_from_backup" }
         => \A path \in DOMAIN backups :
               /\ path \in DOMAIN backups'
               /\ backups'[path].file = backups[path].file]_vars

\* C34 as stated: when the save inside add or update fails, straight after
\* the call began, a load_all of the same instance returns the collection
\* as it was before the call.
FailedWriteLeavesCollection ==
    [][( /\ last'.op = "failed"
         /\ last'.change \in { "add", "update" }
         /\ last.op = "begin"
         /\ last.w = last'.w )
         => load_all(StoreOf(last'.w, storage', sibling'), now').ret
              = last'.before]_vars

\* C35 as stated: a rewrite of the file by another writer that completes
\* between the read of a load_all and the moment its cache stamp is taken
\* is detected by the next load_all, which returns the records of the
\* file as it is now.
RewriteDuringLoadDetected ==
    [][( /\ last'.op = "load_all"
         /\ last.op = "finish_load"
         /\ last.rewritten
         /\ WellFormed(storage.file) )
         => last'.ret = StoredRecords]_vars

\* C36: a successful process_review, whatever the rating, leaves the
\* record with an interval_days that is not below the one it had, for a
\* record whose interval is within the maximum.
IntervalNeverShortened ==
    [][(last'.op = "process_review" /\ last'.ret)
         => \E before \in { RecordOf(StoredRecords, last'.id) },
               after \in { RecordOf(StoredRecords', last'.id) } :
               before.interval_days <= config.maximum_interval_days
               => after.interval_days >= before.interval_days]_vars

\* A "hard" rating of a record that had been reviewed twice and had an
\* interval of several days.
HardAfterLongInterval ==
    /\ last.op = "process_review"
    /\ last.ret
    /\ last.response.difficulty = "hard"
    /\ Len(ratings[1]) = 3
    /\ ratings[1][1] = "easy"
    /\ ratings[1][2] = "easy"
    /\ RecordOf(StoredRecords, 1).interval_days >= 3

\* C37: a record that process_review has reviewed has a next_review_date
\* that lies interval_days days after its last_review_date, and
\* get_flashcards_for_review does not return it while fewer than
\* interval_days days have passed since the review.
ReviewedNotDueEarly ==
    /\ \A i \in 1..Len(StoredRecords) :
          \E fp \in { StoredRecords[i] } :
             fp.last_review_date # None
             => /\ fp.next_review_date # None
                /\ fp.next_review_date[1] - fp.last_review_date[1]
                     = timedelta(fp.interval_days)
    /\ last.op = "get_flashcards_for_review"
       => \A i \in 1..Len(last.ret) :
             \E fp \in { last.ret[i] } :
                fp.last_review_date # None
                => now >= fp.last_review_date[1] + timedelta(fp.interval_days)

\* The review queue asked for a day after a review that gave the record an
\* interval of two days: the record is stored and is not returned.
ReviewedHeldBack ==
    /\ last.op = "get_flashcards_for_review"
    /\ \E i \in 1..Len(StoredRecords) :
          \E fp \in { StoredRecords[i] } :
             /\ fp.last_review_date # None
             /\ now > fp.last_review_date[1]
             /\ now < fp.last_review_date[1] + timedelta(fp.interval_days)
             /\ ~HasRecord(last.ret, fp.id)

\* C38 as stated: when get_analytics is called, papers_due_today counts
\* every record that get_flashcards_for_review returns for the same
\* collection at the same time, records without a next_review_date
\* included.
QueueCountedDueToday ==
    last.op = "get_analytics"
    => last.ret >= Len(get_flashcards_for_review(storage, now, None).ret)

\* C39 as stated: add_flashcard stores the record with the initial ease
\* factor, and a first process_review with the minimum interval, of the
\* SRS parameters the handler's ConfigManager holds when the call is made.
UsesCurrentParameters ==
    /\ last.op = "add_flashcard"
       => RecordOf(StoredRecords, last.id).ease_factor
            = config_manager.srs_parameters.initial_ease_factor
    /\ (last.op = "process_review" /\ last.ret)
       => RecordOf(StoredRecords, last.id).interval_days
            = config_manager.srs_parameters.minimum_interval_days
=============================================================================
